---- MODULE Spec2Model ----
(***************************************************************************)
(* Model of the koturn/bfcompiler Brainfuck compilers: the x64 PE          *)
(* generator, the x64 ELF generator and the x86 ELF generator.  Each       *)
(* main() is one driver: open the files, normalise the source, emit the    *)
(* prologue, lower the tokens one at a time into a seekable byte image     *)
(* (back-patching loops), emit the epilogue, write footer or padding,      *)
(* write the container header at offset 0, close, chmod, run the result.   *)
(***************************************************************************)
EXTENDS Integers, Sequences, FiniteSets, TLC

(***************************************************************************)
(* Bounds of the model.                                                    *)
(***************************************************************************)
\* longest bracket skeleton of an enumerated source
MaxLen == 4
\* longest bracket skeleton that is also enumerated with its '.' stretched
MaxLong == 3
\* length a '.' of such a skeleton is stretched to
LongRun == 21
\* longest run of one character in the run-folding specification
MaxRun == 260
\* most '.' in the loop body of the jump specification
MaxBody == 60
\* longest run of '.' in the header specification: with it the PE code
\* reaches one code alignment unit
MaxDots == 312

(***************************************************************************)
(* Program constants.                                                      *)
(***************************************************************************)
Targets == {"PE", "ELF64", "ELF32"}
IsElf(t) == t \in {"ELF64", "ELF32"}

kBrainfuckChars == {">", "<", "+", "-", ".", ",", "[", "]"}
\* ELF: load address of the first segment and of .bss
kBaseAddr == \h04048000
kBssAddr == \h04248000
kNProgramHeaders == 2
kNSectionHeaders == 4
\* <elf.h> structure sizes
SizeofEhdr(t) == IF t = "ELF64" THEN 64 ELSE 52
SizeofPhdr(t) == IF t = "ELF64" THEN 56 ELSE 32
SizeofShdr(t) == IF t = "ELF64" THEN 64 ELSE 40
kHeaderSize(t) == SizeofEhdr(t) + SizeofPhdr(t) * kNProgramHeaders
kFooterSize(t) == SizeofShdr(t) * kNSectionHeaders
\* PE: image base, padded header and .idata sizes, code alignment
kPeBaseAddr == \h00400000
kPeHeaderSizeWithPadding == \h0200
kIdataSizeWithPadding == \h0200
kCodeAlignment == \h1000
\* offset of the first code byte in the output file
CodeStart(t) ==
  IF t = "PE" THEN kPeHeaderSizeWithPadding + kIdataSizeWithPadding
  ELSE kHeaderSize(t)

(***************************************************************************)
(* Bytes.                                                                  *)
(***************************************************************************)
Byte == 0..255

\* the w low-order bytes of n, little-endian (two's complement for n < 0):
\* what writeAs<T> stores for an integer converted to a w-byte type
RECURSIVE LE(_, _)
LE(n, w) == IF w = 0 THEN <<>> ELSE <<n % 256>> \o LE(n \div 256, w - 1)

\* a run of k zero bytes
Zeros(k) == [j \in 1..k |-> 0]

\* The output file: img maps every offset written so far to its byte; an
\* offset below the file length that was only seeked over reads as 0.
ByteAt(f, o) == IF o \in DOMAIN f THEN f[o] ELSE 0

\* ofs.write of the bytes bs at offset pos
WriteAt(f, pos, bs) ==
  [o \in (DOMAIN f) \cup (pos..(pos + Len(bs) - 1)) |->
     IF o >= pos /\ o < pos + Len(bs) THEN bs[o - pos + 1] ELSE f[o]]

\* the bytes of f at offsets pos .. pos+n-1
Slice(f, pos, n) == [j \in 1..n |-> ByteAt(f, pos + j - 1)]

\* unsigned value of a little-endian field of at most 3 bytes, and the
\* signed value of a 1-byte and of a 4-byte field
U16(bs) == bs[1] + 256 * bs[2]
S8(b) == IF b >= 128 THEN b - 256 ELSE b
S32(bs) ==
  bs[1] + 256 * bs[2] + 65536 * bs[3] + 16777216 * S8(bs[4])

File0 == [o \in {} |-> 0]

(***************************************************************************)
(* Sources enumerated by the model: a bracket skeleton over CoreChars,     *)
(* each '.' of it stretched to a run of k, after one of a few prefixes     *)
(* that bring in the remaining commands and a comment character.           *)
(***************************************************************************)
CoreChars == {"[", "]", "+", "-", "."}
Cores(n) == UNION {[1..m -> CoreChars] : m \in 0..n}
Prefixes == {<<>>, <<"x", ",">>, <<">", "<", "<", "x">>}

Rep(ch, k) == [j \in 1..k |-> ch]

RECURSIVE Expand(_, _)
Expand(core, k) ==
  IF core = <<>> THEN <<>>
  ELSE (IF Head(core) = "." THEN Rep(".", k) ELSE <<Head(core)>>)
         \o Expand(Tail(core), k)

Sources ==
  {p \o c : p \in Prefixes, c \in Cores(MaxLen)}
    \cup {p \o Expand(c, LongRun) : p \in Prefixes, c \in Cores(MaxLong)}

(***************************************************************************)
(* Code generation: the pure parts of main()'s lowering switch.            *)
(***************************************************************************)
\* character of str at the 0-based index k, as the code indexes std::string
At(str, k) == str[k + 1]

\* mutant: the count stops after one character
countSuccChars_AtMostOne(str, ch, offset) ==
  IF offset < Len(str) /\ At(str, offset) = ch THEN 1 ELSE 0

\* how many consecutive ch start at the 0-based index offset
countSuccChars(str, ch, offset) ==
  LET stops == {j \in offset..(Len(str) - 1) : At(str, j) # ch}
      stop == IF stops = {} THEN Len(str)
              ELSE CHOOSE j \in stops : \A k \in stops : j <= k
  IN IF offset < Len(str) THEN stop - offset ELSE 0

\* erase(remove_if(...)): the source without the non-Brainfuck characters
IsBrainfuckChar(ch) == ch \in kBrainfuckChars
Normalized(str) == SelectSeq(str, IsBrainfuckChar)

\* x86 ELF only: the flag the removal predicate clears on every ','
OutputOnly(str) == \A k \in 1..Len(str) : str[k] # ","

\* mutant: the prologue does not load edx
PrologueBytes_NoEdx(t, oo) ==
  CASE t = "ELF64" ->
         <<\h48, \hbe>> \o LE(kBssAddr, 8)
    [] t = "ELF32" ->
         <<\hb9>> \o LE(kBssAddr, 4)
           \o (IF oo THEN <<\hb8>> \o LE(4, 4) \o <<\h89, \hd3>> ELSE <<>>)
    [] t = "PE" ->
         <<\h56, \h57, \h55>>
           \o <<\h48, \h8b, \h34, \h25>> \o LE(0, 4)
           \o <<\h48, \h8b, \h3c, \h25>> \o LE(0, 4)
           \o <<\h48, \hc7, \hc3>> \o LE(0, 4)

\* prologue bytes
PrologueBytes(t, oo) ==
  CASE t = "ELF64" ->
         <<\h48, \hbe>> \o LE(kBssAddr, 8) \o <<\hba>> \o LE(1, 4)
    [] t = "ELF32" ->
         <<\hb9>> \o LE(kBssAddr, 4) \o <<\hba>> \o LE(1, 4)
           \o (IF oo THEN <<\hb8>> \o LE(4, 4) \o <<\h89, \hd3>> ELSE <<>>)
    [] t = "PE" ->
         <<\h56, \h57, \h55>>
           \o <<\h48, \h8b, \h34, \h25>> \o LE(0, 4)
           \o <<\h48, \h8b, \h3c, \h25>> \o LE(0, 4)
           \o <<\h48, \hc7, \hc3>> \o LE(0, 4)

\* opcode bytes of add/sub ptr-reg imm32, add/sub ptr-reg imm8, inc/dec ptr-reg
PtrOp32(t, ch) ==
  CASE t = "ELF64" -> IF ch = ">" THEN <<\h48, \h81, \hc6>> ELSE <<\h48, \h81, \hee>>
    [] t = "ELF32" -> IF ch = ">" THEN <<\h81, \hc1>> ELSE <<\h81, \he9>>
    [] t = "PE" -> IF ch = ">" THEN <<\h48, \h81, \hc3>> ELSE <<\h48, \h81, \heb>>
PtrOp8(t, ch) ==
  CASE t = "ELF64" -> IF ch = ">" THEN <<\h48, \h83, \hc6>> ELSE <<\h48, \h83, \hee>>
    [] t = "ELF32" -> IF ch = ">" THEN <<\h83, \hc1>> ELSE <<\h83, \he9>>
    [] t = "PE" -> IF ch = ">" THEN <<\h48, \h83, \hc3>> ELSE <<\h48, \h83, \heb>>
PtrOp1(t, ch) ==
  CASE t = "ELF64" -> IF ch = ">" THEN <<\h48, \hff, \hc6>> ELSE <<\h48, \hff, \hce>>
    [] t = "ELF32" -> IF ch = ">" THEN <<\h41>> ELSE <<\h49>>
    [] t = "PE" -> IF ch = ">" THEN <<\h48, \hff, \hc3>> ELSE <<\h48, \hff, \hcb>>

\* mutant: the 8-bit immediate is used up to 255
PtrRunBytes_Byte(t, ch, cnt) ==
  IF cnt > 255 THEN PtrOp32(t, ch) \o LE(cnt, 4)
  ELSE IF cnt > 1 THEN PtrOp8(t, ch) \o LE(cnt, 1)
  ELSE PtrOp1(t, ch)

\* case '>' / case '<' for a run of cnt characters
PtrRunBytes(t, ch, cnt) ==
  IF cnt > 127 THEN PtrOp32(t, ch) \o LE(cnt, 4)
  ELSE IF cnt > 1 THEN PtrOp8(t, ch) \o LE(cnt, 1)
  ELSE PtrOp1(t, ch)

\* opcode bytes of add/sub byte [ptr-reg] imm8 and inc/dec byte [ptr-reg]
CellOp8(t, ch) ==
  CASE t = "ELF64" -> IF ch = "+" THEN <<\h80, \h06>> ELSE <<\h80, \h2e>>
    [] t = "ELF32" -> IF ch = "+" THEN <<\h80, \h01>> ELSE <<\h80, \h29>>
    [] t = "PE" -> IF ch = "+" THEN <<\h80, \h03>> ELSE <<\h80, \h2b>>
CellOp1(t, ch) ==
  CASE t = "ELF64" -> IF ch = "+" THEN <<\hfe, \h06>> ELSE <<\hfe, \h0e>>
    [] t = "ELF32" -> IF ch = "+" THEN <<\hfe, \h01>> ELSE <<\hfe, \h09>>
    [] t = "PE" -> IF ch = "+" THEN <<\hfe, \h03>> ELSE <<\hfe, \h0b>>

\* mutant: the count is not reduced modulo 256
CellRunBytes_NoMod(t, ch, n) ==
  IF n > 1 THEN CellOp8(t, ch) \o LE(n, 1)
  ELSE IF n = 1 THEN CellOp1(t, ch)
  ELSE <<>>

\* case '+' / case '-' for a run of n characters (cnt %= 256)
CellRunBytes(t, ch, n) ==
  LET cnt == n % 256 IN
  IF cnt > 1 THEN CellOp8(t, ch) \o LE(cnt, 1)
  ELSE IF cnt = 1 THEN CellOp1(t, ch)
  ELSE <<>>

\* case '.'
DotBytes(t, oo) ==
  CASE t = "ELF64" -> <<\h89, \hd0, \h89, \hd7, \h0f, \h05>>
    [] t = "ELF32" ->
         (IF ~oo THEN <<\hb8>> \o LE(4, 4) \o <<\h89, \hd3>> ELSE <<>>)
           \o <<\hcd, \h80>>
    [] t = "PE" ->
         <<\h48, \h8b, \h0b, \h48, \h83, \hec, \h20, \hff, \hd6,
           \h48, \h83, \hc4, \h20>>

\* case ','
CommaBytes(t) ==
  CASE t = "ELF64" -> <<\h31, \hc0, \h31, \hff, \h0f, \h05>>
    [] t = "ELF32" -> <<\hb8>> \o LE(3, 4) \o <<\h31, \hdb, \hcd, \h80>>
    [] t = "PE" ->
         <<\h48, \h83, \hec, \h20, \hff, \hd7, \h48, \h83, \hc4, \h20,
           \h88, \h03>>

\* mutant: the window is not found at the very end of the source
IsZeroStore_NotLast(str, k) ==
  /\ k + 3 < Len(str)
  /\ (At(str, k + 1) = "+" \/ At(str, k + 1) = "-")
  /\ At(str, k + 2) = "]"

\* mutant: the window is not checked to end with ']'
IsZeroStore_NoClose(str, k) ==
  /\ k + 2 < Len(str)
  /\ (At(str, k + 1) = "+" \/ At(str, k + 1) = "-")

\* case '[': whether the three characters at i are [+] or [-]
IsZeroStore(str, k) ==
  /\ k + 2 < Len(str)
  /\ (At(str, k + 1) = "+" \/ At(str, k + 1) = "-")
  /\ At(str, k + 2) = "]"

\* the store of zero to the current cell
ZeroStoreBytes(t) ==
  CASE t = "ELF64" -> <<\h88, \h36>>
    [] t = "ELF32" -> <<\h88, \h31>>
    [] t = "PE" -> <<\hc6, \h03, \h00>>

\* cmp byte [ptr-reg], 0 ; je rel32 (displacement filled at the matching ']')
CmpBytes(t) ==
  CASE t = "ELF64" -> <<\h38, \h36>>
    [] t = "ELF32" -> <<\h38, \h31>>
    [] t = "PE" -> <<\h80, \h3b, \h00>>
\* mutant: the je is emitted without its displacement
LoopHeadBytes_NoSlot(t) == CmpBytes(t) \o <<\h0f, \h84>>

LoopHeadBytes(t) == CmpBytes(t) \o <<\h0f, \h84>> \o LE(0, 4)

\* mutant: the short form is chosen one byte too far
JmpBytes_Late(pos, c) ==
  LET offset == (pos - c) - 1 IN
  IF offset - 1 < -129
  THEN <<\he9>> \o LE(offset - 4, 4)
  ELSE <<\heb>> \o LE(offset - 1, 1)

\* case ']': the jmp back to pos, emitted with the cursor at c
JmpBytes(pos, c) ==
  LET offset == (pos - c) - 1 IN
  IF offset - 1 < -128
  THEN <<\he9>> \o LE(offset - 4, 4)
  ELSE <<\heb>> \o LE(offset - 1, 1)

\* mutant: the ELF constant copied to the PE generator
JeSlot_Copied(t, pos) == pos + 4

\* case ']': where the seekp before the back-patch lands, and what is written
JeSlot(t, pos) == pos + (IF t = "PE" THEN 5 ELSE 4)
JeRel32(t, pos, curPos) == LE(curPos - JeSlot(t, pos) - 4, 4)

\* mutant: the PE epilogue pops as its comments say (rsi, rdi, rbp)
EpilogueBytes_AsCommented(t) ==
  CASE t = "ELF64" -> <<\hb8>> \o LE(\h3c, 4) \o <<\h31, \hff, \h0f, \h05>>
    [] t = "ELF32" -> <<\h89, \hd0, \h31, \hdb, \hcd, \h80>>
    [] t = "PE" -> <<\h5e, \h5f, \h5d, \h48, \h31, \hc0, \hc3>>

\* epilogue bytes (PE: without the 4-byte slot that follows the ret)
EpilogueBytes(t) ==
  CASE t = "ELF64" -> <<\hb8>> \o LE(\h3c, 4) \o <<\h31, \hff, \h0f, \h05>>
    [] t = "ELF32" -> <<\h89, \hd0, \h31, \hdb, \hcd, \h80>>
    [] t = "PE" -> <<\h5d, \h5f, \h5e, \h48, \h31, \hc0, \hc3>>

\* calcAlignedSize
calcAlignedSize(size, alignment) ==
  alignment * ((size + alignment - 1) \div alignment)

(***************************************************************************)
(* Container emitter, ELF: writeHeader and writeFooter.                    *)
(***************************************************************************)
\* width of an Elf_Addr / Elf_Off / Elf_Xword field
W(t) == IF t = "ELF64" THEN 8 ELSE 4

\* kShStrTab with its terminating NUL: "\0.text\0.shstrtab\0.bss"
kShStrTab ==
  <<
     \h00, \h2e, \h74, \h65, \h78, \h74, \h00, \h2e, \h73, \h68, \h73, \h74,
     \h72, \h74, \h61, \h62, \h00, \h2e, \h62, \h73, \h73, \h00
  >>

\* one section header in the field order of Elf64_Shdr / Elf32_Shdr
ShdrBytes(t, name, type, flags, addr, offset, size, link, info, addralign, entsize) ==
  LE(name, 4) \o LE(type, 4) \o LE(flags, W(t)) \o LE(addr, W(t))
    \o LE(offset, W(t)) \o LE(size, W(t)) \o LE(link, 4) \o LE(info, 4)
    \o LE(addralign, W(t)) \o LE(entsize, W(t))

\* one program header: Elf64_Phdr has p_flags second, Elf32_Phdr second to last
PhdrBytes(t, type, flags, offset, vaddr, paddr, filesz, memsz, align) ==
  IF t = "ELF64"
  THEN LE(type, 4) \o LE(flags, 4) \o LE(offset, 8) \o LE(vaddr, 8)
         \o LE(paddr, 8) \o LE(filesz, 8) \o LE(memsz, 8) \o LE(align, 8)
  ELSE LE(type, 4) \o LE(offset, 4) \o LE(vaddr, 4) \o LE(paddr, 4)
         \o LE(filesz, 4) \o LE(memsz, 4) \o LE(flags, 4) \o LE(align, 4)

\* mutant: e_shoff does not count the string table
ElfShoff_AtStrtab(t, codeSize) == kHeaderSize(t) + codeSize
\* e_shoff as writeHeader computes it
ElfShoff(t, codeSize) == kHeaderSize(t) + Len(kShStrTab) + codeSize
\* p_filesz (and p_memsz) of the first segment
ElfFilesz(t, codeSize) ==
  kHeaderSize(t) + Len(kShStrTab) + kFooterSize(t) + codeSize
\* sh_offset of .shstrtab as writeFooter computes it
ElfStrtabOffset(t, codeSize) == kHeaderSize(t) + codeSize

\* the ELF header followed by the two program headers
ElfHeaderBytes(t, codeSize) ==
  \* e_ident: magic, class, ELFDATA2LSB, EV_CURRENT, ELFOSABI_LINUX, padding
  <<\h7f, \h45, \h4c, \h46, (IF t = "ELF64" THEN 2 ELSE 1), 1, 1, 3>> \o Zeros(8)
    \o LE(2, 2)                                      \* e_type = ET_EXEC
    \o LE(IF t = "ELF64" THEN 62 ELSE 3, 2)          \* e_machine
    \o LE(1, 4)                                      \* e_version
    \o LE(kBaseAddr + kHeaderSize(t), W(t))          \* e_entry
    \o LE(SizeofEhdr(t), W(t))                       \* e_phoff
    \o LE(ElfShoff(t, codeSize), W(t))               \* e_shoff
    \o LE(0, 4)                                      \* e_flags
    \o LE(SizeofEhdr(t), 2)                          \* e_ehsize
    \o LE(SizeofPhdr(t), 2)                          \* e_phentsize
    \o LE(kNProgramHeaders, 2)                       \* e_phnum
    \o LE(SizeofShdr(t), 2)                          \* e_shentsize
    \o LE(kNSectionHeaders, 2)                       \* e_shnum
    \o LE(1, 2)                                      \* e_shstrndx
    \* PT_LOAD, PF_R | PF_X
    \o PhdrBytes(t, 1, 5, 0, kBaseAddr, kBaseAddr,
                 ElfFilesz(t, codeSize), ElfFilesz(t, codeSize), \h1000)
    \* PT_LOAD, PF_R | PF_W: .bss
    \o PhdrBytes(t, 1, 6, 0, kBssAddr, kBssAddr, 0, \h10000, \h1000)

\* the string table followed by the four section headers
ElfFooterBytes(t, codeSize) ==
  kShStrTab
    \o ShdrBytes(t, 0, 0, 0, 0, 0, 0, 0, 0, 0, 0)
    \* .shstrtab: SHT_STRTAB
    \o ShdrBytes(t, 7, 3, 0, 0, ElfStrtabOffset(t, codeSize), Len(kShStrTab),
                 0, 0, 1, 0)
    \* .text: SHT_PROGBITS, SHF_EXECINSTR | SHF_ALLOC
    \o ShdrBytes(t, 1, 1, 6, kBaseAddr + kHeaderSize(t), kHeaderSize(t),
                 codeSize, 0, 0, 4, 0)
    \* .bss: SHT_NOBITS, SHF_ALLOC | SHF_WRITE
    \o ShdrBytes(t, 17, 8, 3, kBssAddr, \h1000, \h10000, 0, 0, \h10, 0)

(***************************************************************************)
(* Container emitter, PE: writeHeader.                                     *)
(***************************************************************************)
\* kDosStub with its terminating NUL
kDosStub ==
  <<\h0e, \h1f, \hba, \h0e, \h00, \hb4, \h09, \hcd, \h21, \hb8, \h01, \h4c,
     \hcd, \h21,
     \h54, \h68, \h69, \h73, \h20, \h70, \h72, \h6f, \h67, \h72, \h61, \h6d,
     \h20, \h63, \h61, \h6e, \h6e, \h6f, \h74, \h20, \h62, \h65, \h20, \h72,
     \h75, \h6e, \h20, \h69, \h6e, \h20, \h44, \h4f, \h53, \h20, \h6d, \h6f,
     \h64, \h65, \h2e, \h0d, \h0d, \h0a, \h24, \h00, \h00, \h00, \h00, \h00,
     \h00, \h00
  >>

\* kDllName, kPutcharName, kGetcharName, kExitName with their terminating NULs
kDllName ==
  <<\h6d, \h73, \h76, \h63, \h72, \h74, \h2e, \h64, \h6c, \h6c, \h00, \h00, \h00, \h00, \h00, \h00>>
kPutcharName == <<\h70, \h75, \h74, \h63, \h68, \h61, \h72, \h00>>
kGetcharName == <<\h67, \h65, \h74, \h63, \h68, \h61, \h72, \h00>>
kExitName == <<\h65, \h78, \h69, \h74, \h00, \h00, \h00, \h00>>

\* ioh.SectionAlignment, ioh.FileAlignment, ioh.BaseOfCode
SectionAlignment == \h1000
FileAlignment == \h0200
BaseOfCode == \h1000

\* RVAs of the three sections
TextRva == BaseOfCode
\* mutant: .idata follows the code without alignment
IdataRva_Unaligned(codeSize) == TextRva + codeSize
IdataRva(codeSize) == TextRva + calcAlignedSize(codeSize, kCodeAlignment)
BssRva(codeSize) == IdataRva(codeSize) + SectionAlignment
\* ioh.SizeOfImage
SizeOfImage(codeSize) ==
  \h10000 + calcAlignedSize(codeSize, kCodeAlignment) + SectionAlignment * 2

\* sizeof(iids), sizeof(itdInts)
SizeofIids == 2 * 20
SizeofItdInts == 4 * 8
\* iids[0].OriginalFirstThunk, iids[0].Name, iids[0].FirstThunk
IntRva(codeSize) == IdataRva(codeSize) + SizeofIids
DllNameRva(codeSize) == IntRva(codeSize) + SizeofItdInts
IatRva(codeSize) == DllNameRva(codeSize) + 16
\* itdInts[0..2].u1.AddressOfData
PutcharNameRva(codeSize) ==
  IdataRva(codeSize) + SizeofIids + Len(kDllName) + SizeofItdInts * 2
GetcharNameRva(codeSize) == PutcharNameRva(codeSize) + 2 + Len(kPutcharName)
ExitNameRva(codeSize) == GetcharNameRva(codeSize) + 2 + Len(kGetcharName)

\* IMAGE_SECTION_HEADER
SectionBytes(name, vsize, vaddr, rawsize, rawptr, chars) ==
  name \o LE(vsize, 4) \o LE(vaddr, 4) \o LE(rawsize, 4) \o LE(rawptr, 4)
    \o LE(0, 4) \o LE(0, 4) \o LE(0, 2) \o LE(0, 2) \o chars

\* IMAGE_DOS_HEADER
DosHeaderBytes ==
  LE(\h5a4d, 2) \o LE(\h0090, 2) \o LE(\h0003, 2) \o LE(0, 2) \o LE(\h0004, 2)
    \o LE(0, 2) \o LE(\hffff, 2) \o LE(0, 2) \o LE(\h00b8, 2) \o LE(0, 2)
    \o LE(0, 2) \o LE(0, 2) \o LE(\h0040, 2) \o LE(0, 2)
    \o Zeros(8) \o LE(0, 2) \o LE(0, 2) \o Zeros(20) \o LE(\h00000080, 4)

\* IMAGE_FILE_HEADER
FileHeaderBytes(ts) ==
  LE(\h8664, 2) \o LE(3, 2) \o LE(ts, 4) \o LE(0, 4) \o LE(0, 4)
    \o LE(240, 2) \o LE(\h020f, 2)

\* IMAGE_OPTIONAL_HEADER64
OptionalHeaderBytes(codeSize) ==
  LE(\h020b, 2) \o <<14, 26>>
    \o LE(codeSize, 4) \o LE(0, 4) \o LE(65536, 4)
    \o LE(\h1000, 4) \o LE(BaseOfCode, 4) \o LE(kPeBaseAddr, 8)
    \o LE(SectionAlignment, 4) \o LE(FileAlignment, 4)
    \o LE(6, 2) \o LE(0, 2) \o LE(0, 2) \o LE(0, 2) \o LE(6, 2) \o LE(0, 2)
    \o LE(0, 4)
    \o LE(SizeOfImage(codeSize), 4) \o LE(kPeHeaderSizeWithPadding, 4)
    \o LE(0, 4) \o LE(3, 2) \o LE(0, 2)
    \o LE(1024 * 1024, 8) \o LE(8 * 1024, 8)
    \o LE(1024 * 1024, 8) \o LE(4 * 1024, 8)
    \o LE(0, 4) \o LE(16, 4)
    \* DataDirectory: all {0, 0} but [1], the import table
    \o Zeros(8) \o LE(IdataRva(codeSize), 4) \o LE(100, 4) \o Zeros(14 * 8)

\* mutant: the DOS stub is written twice, the header block is 0x240 long
PeHeaderBytes_TwoStubs(codeSize, ts) ==
  DosHeaderBytes \o kDosStub \o kDosStub \o <<\h50, \h45, \h00, \h00>>
    \o FileHeaderBytes(ts) \o OptionalHeaderBytes(codeSize)
    \o SectionBytes(<<\h2e, \h74, \h65, \h78, \h74, 0, 0, 0>>,
                    codeSize, TextRva, codeSize,
                    kPeHeaderSizeWithPadding + kIdataSizeWithPadding,
                    <<\h20, \h00, \h50, \h60>>)
    \o SectionBytes(<<\h2e, \h69, \h64, \h61, \h74, \h61, 0, 0>>,
                    100, IdataRva(codeSize), 512, kPeHeaderSizeWithPadding,
                    <<\h40, \h00, \h30, \h40>>)
    \o SectionBytes(<<\h2e, \h62, \h73, \h73, 0, 0, 0, 0>>,
                    65536, BssRva(codeSize), 0, 0,
                    <<\h80, \h00, \h40, \hc0>>)

\* everything writeHeader writes from offset 0
PeHeaderBytes(codeSize, ts) ==
  DosHeaderBytes \o kDosStub \o <<\h50, \h45, \h00, \h00>>
    \o FileHeaderBytes(ts) \o OptionalHeaderBytes(codeSize)
    \o SectionBytes(<<\h2e, \h74, \h65, \h78, \h74, 0, 0, 0>>,
                    codeSize, TextRva, codeSize,
                    kPeHeaderSizeWithPadding + kIdataSizeWithPadding,
                    <<\h20, \h00, \h50, \h60>>)
    \o SectionBytes(<<\h2e, \h69, \h64, \h61, \h74, \h61, 0, 0>>,
                    100, IdataRva(codeSize), 512, kPeHeaderSizeWithPadding,
                    <<\h40, \h00, \h30, \h40>>)
    \o SectionBytes(<<\h2e, \h62, \h73, \h73, 0, 0, 0, 0>>,
                    65536, BssRva(codeSize), 0, 0,
                    <<\h80, \h00, \h40, \hc0>>)

\* the import name table / import address table
ThunkBytes(codeSize) ==
  LE(PutcharNameRva(codeSize), 8) \o LE(GetcharNameRva(codeSize), 8)
    \o LE(ExitNameRva(codeSize), 8) \o LE(0, 8)

\* everything writeHeader writes from offset kPeHeaderSizeWithPadding
PeIdataBytes(codeSize, ts) ==
  \* iids[0]
  LE(IntRva(codeSize), 4) \o LE(ts, 4) \o LE(0, 4)
    \o LE(DllNameRva(codeSize), 4) \o LE(IatRva(codeSize), 4)
    \* iids[1]
    \o LE(0, 4) \o LE(ts, 4) \o LE(0, 4) \o LE(0, 4) \o LE(0, 4)
    \o ThunkBytes(codeSize) \o kDllName \o ThunkBytes(codeSize)
    \o LE(0, 2) \o kPutcharName \o LE(0, 2) \o kGetcharName
    \o LE(0, 2) \o kExitName

(***************************************************************************)
(* The instructions of the emitted image as the processor decodes them     *)
(* when std::system runs the destination: x86 in 32-bit mode for the x86   *)
(* ELF target, in 64-bit mode for the other two.  Registers are numbered   *)
(* as the encoding numbers them: 0 ax, 1 cx, 2 dx, 3 bx, 4 sp, 5 bp,       *)
(* 6 si, 7 di; the byte registers 0..7 are al cl dl bl ah ch dh bh.        *)
(***************************************************************************)
RAX == \h0
RCX == \h1
RDX == \h2
RBX == \h3
RSP == \h4
RBP == \h5
RSI == \h6
RDI == \h7
\* the byte register dh
DH == \h6

Loc(k, n) == [k |-> k, n |-> n]
NoLoc == Loc("none", 0)
Ins(len, op, size, dst, src) ==
  [len |-> len, op |-> op, size |-> size, dst |-> dst, src |-> src]
Bad == Ins(1, "bad", 0, NoLoc, NoLoc)

\* the r/m operand of the ModRM byte at offset m, and the number of
\* addressing bytes that follow the ModRM byte
RmLoc(f, m) ==
  LET modrm == ByteAt(f, m)
      mod == modrm \div 64
      rm == modrm % 8
  IN CASE mod = 3 -> [loc |-> Loc("reg", rm), extra |-> 0]
       [] mod = 0 /\ rm \notin {4, 5} -> [loc |-> Loc("mem", rm), extra |-> 0]
       \* SIB with no index and no base: [disp32]
       [] mod = 0 /\ rm = 4 /\ ByteAt(f, m + 1) = \h25 ->
            [loc |-> Loc("abs", S32(Slice(f, m + 2, 4))), extra |-> 5]
       [] OTHER -> [loc |-> NoLoc, extra |-> 0]

\* the instruction at offset a of image f
Decode(f, a, t) ==
  LET rex == t # "ELF32" /\ ByteAt(f, a) = \h48
      p == IF rex THEN a + 1 ELSE a
      pre == p - a
      op == ByteAt(f, p)
      reg == (ByteAt(f, p + 1) \div 8) % 8
      rm == RmLoc(f, p + 1)
      opsize == IF rex THEN 64 ELSE 32
      grp1 == CASE reg = 0 -> "add" [] reg = 5 -> "sub" [] reg = 7 -> "cmp"
                [] OTHER -> "bad"
      grp45 == CASE reg = 0 -> "inc" [] reg = 1 -> "dec"
                 [] reg = 2 /\ op = \hff -> "call" [] OTHER -> "bad"
  IN CASE op \in \h50..\h57 /\ ~rex ->
            Ins(1, "push", 64, NoLoc, Loc("reg", op - \h50))
       [] op \in \h58..\h5f /\ ~rex ->
            Ins(1, "pop", 64, Loc("reg", op - \h58), NoLoc)
       [] t = "ELF32" /\ op \in \h40..\h47 ->
            Ins(1, "inc", 32, Loc("reg", op - \h40), NoLoc)
       [] t = "ELF32" /\ op \in \h48..\h4f ->
            Ins(1, "dec", 32, Loc("reg", op - \h48), NoLoc)
       [] op \in \hb8..\hbf /\ ~rex ->
            Ins(5, "mov", 32, Loc("reg", op - \hb8),
                Loc("imm", S32(Slice(f, p + 1, 4))))
       [] op \in \hb8..\hbf /\ rex /\ Slice(f, p + 5, 4) = Zeros(4) ->
            Ins(10, "mov", 64, Loc("reg", op - \hb8),
                Loc("imm", S32(Slice(f, p + 1, 4))))
       [] op = \h81 /\ rm.loc # NoLoc ->
            Ins(pre + 2 + rm.extra + 4, grp1, opsize, rm.loc,
                Loc("imm", S32(Slice(f, p + 2 + rm.extra, 4))))
       [] op = \h83 /\ rm.loc # NoLoc ->
            Ins(pre + 2 + rm.extra + 1, grp1, opsize, rm.loc,
                Loc("imm", S8(ByteAt(f, p + 2 + rm.extra))))
       [] op = \h80 /\ rm.loc # NoLoc ->
            Ins(pre + 2 + rm.extra + 1, grp1, 8, rm.loc,
                Loc("imm", ByteAt(f, p + 2 + rm.extra)))
       [] op = \hfe /\ rm.loc # NoLoc ->
            Ins(pre + 2 + rm.extra, grp45, 8, rm.loc, NoLoc)
       [] op = \hff /\ rm.loc # NoLoc ->
            Ins(pre + 2 + rm.extra, grp45, opsize, rm.loc, NoLoc)
       [] op = \h88 /\ rm.loc # NoLoc ->
            Ins(pre + 2 + rm.extra, "mov", 8, rm.loc, Loc("reg", reg))
       [] op = \h89 /\ rm.loc # NoLoc ->
            Ins(pre + 2 + rm.extra, "mov", opsize, rm.loc, Loc("reg", reg))
       [] op = \h8b /\ rm.loc # NoLoc ->
            Ins(pre + 2 + rm.extra, "mov", opsize, Loc("reg", reg), rm.loc)
       [] op = \h38 /\ rm.loc # NoLoc ->
            Ins(pre + 2 + rm.extra, "cmp", 8, rm.loc, Loc("reg", reg))
       [] op = \h31 /\ rm.loc # NoLoc ->
            Ins(pre + 2 + rm.extra, "xor", opsize, rm.loc, Loc("reg", reg))
       [] op = \hc6 /\ reg = 0 /\ rm.loc # NoLoc ->
            Ins(pre + 2 + rm.extra + 1, "mov", 8, rm.loc,
                Loc("imm", ByteAt(f, p + 2 + rm.extra)))
       [] op = \hc7 /\ reg = 0 /\ rm.loc # NoLoc ->
            Ins(pre + 2 + rm.extra + 4, "mov", opsize, rm.loc,
                Loc("imm", S32(Slice(f, p + 2 + rm.extra, 4))))
       [] op = \h0f /\ ByteAt(f, p + 1) = \h05 /\ ~rex ->
            Ins(2, "syscall", 0, NoLoc, NoLoc)
       [] op = \h0f /\ ByteAt(f, p + 1) = \h84 /\ ~rex ->
            Ins(6, "je", 0, NoLoc, Loc("imm", a + 6 + S32(Slice(f, p + 2, 4))))
       [] op = \he9 /\ ~rex ->
            Ins(5, "jmp", 0, NoLoc, Loc("imm", a + 5 + S32(Slice(f, p + 1, 4))))
       [] op = \heb /\ ~rex ->
            Ins(2, "jmp", 0, NoLoc, Loc("imm", a + 2 + S8(ByteAt(f, p + 1))))
       [] op = \hcd /\ ~rex ->
            Ins(2, "int", 0, NoLoc, Loc("imm", ByteAt(f, p + 1)))
       [] op = \hc3 /\ ~rex -> Ins(1, "ret", 0, NoLoc, NoLoc)
       [] OTHER -> Bad


(***************************************************************************)
(* The output stream std::ofstream ofs: the file image, the put position   *)
(* and the file length.                                                    *)
(***************************************************************************)
\* ofs.write(bs)
write(o, bs) ==
  [o EXCEPT !.img = WriteAt(o.img, o.cur, bs),
            !.cur = o.cur + Len(bs),
            !.len = IF bs # <<>> /\ o.cur + Len(bs) > o.len
                    THEN o.cur + Len(bs) ELSE o.len]
\* ofs.seekp(pos, std::ios_base::beg), seekp(off, cur), seekp(0, end)
seekp(o, pos) == [o EXCEPT !.cur = pos]
seekcur(o, off) == [o EXCEPT !.cur = o.cur + off]
seekend(o) == [o EXCEPT !.cur = o.len]

(***************************************************************************)
(* State.                                                                  *)
(***************************************************************************)
VARIABLES
  target,       \* which of the three compilers runs
  srcFile,      \* contents of source.bf
  pc,           \* where main() stands
  ifsOpen,      \* the input stream is open
  ofsOpen,      \* the output stream is open
  source,       \* std::string source
  isOutputOnly, \* x86 ELF: no ',' was seen by the removal predicate
  ofs,          \* the output stream: [img, cur, len]
  i,            \* index of the lowering loop
  loopStack,    \* std::stack of the positions saved at '['
  exitAddrPos,  \* PE: position of the slot after the epilogue's ret
  codeSize,     \* size of the code region once it is fixed
  err,          \* lines written to std::cerr
  ret,          \* value returned by main(), -1 while it runs
  ran,          \* value returned by std::system, -1 while it was not called
  mode,         \* permission bits of the output file
  loops,        \* history: per closed loop, the saved position and the jmp
  events,       \* history: the steps main() has taken, in order
  cpu           \* the running child (specification SpecChild only)

vars ==
  <<target, srcFile, pc, ifsOpen, ofsOpen, source, isOutputOnly, ofs, i,
    loopStack, exitAddrPos, codeSize, err, ret, ran, mode, loops, events,
    cpu>>

\* values std::system may return for the finished child
ChildStatuses == {0, 1, 139}
\* values std::time may return
TimeStamps == {0, 1590883200}

kErrClose == "'[' corresponding to ']' is not found."
kErrOpen == "']' corresponding to '[' is not found."
kErrSrc == "Failed to open ./source.bf"
kErrDst(t) == IF t = "PE" THEN "Failed to open ./a.exe" ELSE "Failed to open ./a.out"

NoCpu == [on |-> FALSE]

InitWith(t, src) ==
  /\ target = t
  /\ srcFile = src
  /\ pc = "start"
  /\ ifsOpen = FALSE
  /\ ofsOpen = FALSE
  /\ source = <<>>
  /\ isOutputOnly = TRUE
  /\ ofs = [img |-> File0, cur |-> 0, len |-> 0]
  /\ i = 0
  /\ loopStack = <<>>
  /\ exitAddrPos = 0
  /\ codeSize = 0
  /\ err = <<>>
  /\ ret = -1
  /\ ran = -1
  /\ mode = 0
  /\ loops = <<>>
  /\ events = <<>>
  /\ cpu = NoCpu

Init == \E t \in Targets, src \in Sources : InitWith(t, src)

(***************************************************************************)
(* main(): opening the files.                                              *)
(***************************************************************************)
\* std::ifstream ifs{srcFilePath} fails: return 1
OpenSrcFail ==
  /\ pc = "start"
  /\ pc' = "done"
  /\ err' = Append(err, kErrSrc)
  /\ ret' = 1
  /\ UNCHANGED <<target, srcFile, ifsOpen, ofsOpen, source, isOutputOnly, ofs,
                 i, loopStack, exitAddrPos, codeSize, ran, mode, loops, events, cpu>>

\* std::ifstream ifs{srcFilePath} succeeds
OpenSrc ==
  /\ pc = "start"
  /\ pc' = "srcopen"
  /\ ifsOpen' = TRUE
  /\ events' = events \o <<"open_src">>
  /\ UNCHANGED <<target, srcFile, ofsOpen, source, isOutputOnly, ofs, i,
                 loopStack, exitAddrPos, codeSize, err, ret, ran, mode, loops,
                 cpu>>

\* mutant: the source is read but ifs stays open
ReadSrc_KeepsOpen ==
  /\ pc = "srcopen"
  /\ pc' = "srcread"
  /\ source' = srcFile
  /\ events' = events \o <<"read_src">>
  /\ UNCHANGED <<target, srcFile, ifsOpen, ofsOpen, isOutputOnly, ofs, i,
                 loopStack, exitAddrPos, codeSize, err, ret, ran, mode, loops,
                 cpu>>

\* the source is read to its end, then ifs.close()
ReadSrc ==
  /\ pc = "srcopen"
  /\ pc' = "srcread"
  /\ source' = srcFile
  /\ ifsOpen' = FALSE
  /\ events' = events \o <<"read_src", "close_src">>
  /\ UNCHANGED <<target, srcFile, ofsOpen, isOutputOnly, ofs, i, loopStack,
                 exitAddrPos, codeSize, err, ret, ran, mode, loops, cpu>>

\* std::ofstream ofs{dstFilePath, std::ios::binary} fails: return 1
OpenDstFail ==
  /\ pc = "srcread"
  /\ pc' = "done"
  /\ err' = Append(err, kErrDst(target))
  /\ ret' = 1
  /\ UNCHANGED <<target, srcFile, ifsOpen, ofsOpen, source, isOutputOnly, ofs,
                 i, loopStack, exitAddrPos, codeSize, ran, mode, loops, events, cpu>>

\* std::ofstream ofs{dstFilePath, std::ios::binary} succeeds: the file is
\* created empty, without the execute bits
OpenDst ==
  /\ pc = "srcread"
  /\ pc' = "opened"
  /\ ofsOpen' = TRUE
  /\ mode' = 420
  /\ events' = events \o <<"open_dst">>
  /\ UNCHANGED <<target, srcFile, ifsOpen, source, isOutputOnly, ofs, i,
                 loopStack, exitAddrPos, codeSize, err, ret, ran, loops, cpu>>

(***************************************************************************)
(* main(): normalisation and prologue.  The ELF generators normalise and   *)
(* then emit the prologue; the PE generator emits the prologue first.      *)
(***************************************************************************)
Normalize ==
  /\ pc = (IF target = "PE" THEN "prologued" ELSE "opened")
  /\ pc' = (IF target = "PE" THEN "loop" ELSE "normalized")
  /\ source' = Normalized(source)
  /\ isOutputOnly' = (IF target = "ELF32" THEN OutputOnly(source) ELSE isOutputOnly)
  /\ events' = events \o <<"normalize">>
  /\ UNCHANGED <<target, srcFile, ifsOpen, ofsOpen, ofs, i, loopStack,
                 exitAddrPos, codeSize, err, ret, ran, mode, loops, cpu>>

\* seekp past the header region, then the prologue
Prologue ==
  /\ pc = (IF target = "PE" THEN "opened" ELSE "normalized")
  /\ pc' = (IF target = "PE" THEN "prologued" ELSE "loop")
  /\ ofs' = write(seekp(ofs, CodeStart(target)),
                  PrologueBytes(target, isOutputOnly))
  /\ events' = events \o <<"skip_header", "prologue">>
  /\ UNCHANGED <<target, srcFile, ifsOpen, ofsOpen, source, isOutputOnly, i,
                 loopStack, exitAddrPos, codeSize, err, ret, ran, mode, loops,
                 cpu>>

(***************************************************************************)
(* main(): the lowering loop, one action per case of the switch.           *)
(***************************************************************************)
\* what no step of the loop changes
loopFrame ==
  <<target, srcFile, ifsOpen, source, isOutputOnly, exitAddrPos, codeSize,
    ran, mode, events, cpu>>

AtToken(ch) == pc = "loop" /\ i < Len(source) /\ At(source, i) = ch

\* case '>', case '<': fold the run into one pointer instruction
LowerPtr(ch) ==
  /\ AtToken(ch)
  /\ LET cnt == countSuccChars(source, ch, i + 1) + 1 IN
       /\ i' = i + cnt
       /\ ofs' = write(ofs, PtrRunBytes(target, ch, cnt))
  /\ UNCHANGED <<pc, ofsOpen, loopStack, err, ret, loops>>
  /\ UNCHANGED loopFrame

LowerGt == LowerPtr(">")
LowerLt == LowerPtr("<")

\* case '+', case '-': fold the run into one cell instruction
LowerCell(ch) ==
  /\ AtToken(ch)
  /\ LET cnt == countSuccChars(source, ch, i + 1) + 1 IN
       /\ i' = i + cnt
       /\ ofs' = write(ofs, CellRunBytes(target, ch, cnt))
  /\ UNCHANGED <<pc, ofsOpen, loopStack, err, ret, loops>>
  /\ UNCHANGED loopFrame

LowerPlus == LowerCell("+")
LowerMinus == LowerCell("-")

\* case '.'
LowerDot ==
  /\ AtToken(".")
  /\ i' = i + 1
  /\ ofs' = write(ofs, DotBytes(target, isOutputOnly))
  /\ UNCHANGED <<pc, ofsOpen, loopStack, err, ret, loops>>
  /\ UNCHANGED loopFrame

\* case ','
LowerComma ==
  /\ AtToken(",")
  /\ i' = i + 1
  /\ ofs' = write(ofs, CommaBytes(target))
  /\ UNCHANGED <<pc, ofsOpen, loopStack, err, ret, loops>>
  /\ UNCHANGED loopFrame

\* mutant: the zero store pushes a position as well
LowerOpen_AlwaysPushes ==
  /\ AtToken("[")
  /\ IF IsZeroStore(source, i)
     THEN /\ ofs' = write(ofs, ZeroStoreBytes(target))
          /\ i' = i + 3
          /\ loopStack' = Append(loopStack, ofs.cur)
     ELSE /\ loopStack' = Append(loopStack, ofs.cur)
          /\ ofs' = write(ofs, LoopHeadBytes(target))
          /\ i' = i + 1
  /\ UNCHANGED <<pc, ofsOpen, err, ret, loops>>
  /\ UNCHANGED loopFrame

\* case '[': the zero store for [+] and [-], otherwise push and cmp/je
LowerOpen ==
  /\ AtToken("[")
  /\ IF IsZeroStore(source, i)
     THEN /\ ofs' = write(ofs, ZeroStoreBytes(target))
          /\ i' = i + 3
          /\ loopStack' = loopStack
     ELSE /\ loopStack' = Append(loopStack, ofs.cur)
          /\ ofs' = write(ofs, LoopHeadBytes(target))
          /\ i' = i + 1
  /\ UNCHANGED <<pc, ofsOpen, err, ret, loops>>
  /\ UNCHANGED loopFrame

\* mutant: the diagnostic is printed and the loop goes on
UnmatchedClose_GoesOn ==
  /\ AtToken("]")
  /\ loopStack = <<>>
  /\ err' = Append(err, kErrClose)
  /\ i' = i + 1
  /\ UNCHANGED <<pc, ofsOpen, ofs, loopStack, ret, loops>>
  /\ UNCHANGED loopFrame

\* case ']' with an empty stack: diagnostic, return 1
UnmatchedClose ==
  /\ AtToken("]")
  /\ loopStack = <<>>
  /\ err' = Append(err, kErrClose)
  /\ ret' = 1
  /\ pc' = "done"
  /\ ofsOpen' = FALSE
  /\ UNCHANGED <<ofs, i, loopStack, loops>>
  /\ UNCHANGED loopFrame

\* mutant: the cursor stays behind the patched slot
CloseLoop_NoSeekBack(t, o, pos) ==
  LET jumped == write(o, JmpBytes(pos, o.cur))
      curPos == jumped.cur
  IN write(seekp(jumped, JeSlot(t, pos)), JeRel32(t, pos, curPos))

\* the stream after the jmp back to pos and the back-patch of the je
CloseLoop(t, o, pos) ==
  LET jumped == write(o, JmpBytes(pos, o.cur))
      curPos == jumped.cur
  IN seekp(write(seekp(jumped, JeSlot(t, pos)), JeRel32(t, pos, curPos)),
           curPos)

\* case ']': jmp back, fill the je of the matching '[', pop
LowerClose ==
  /\ AtToken("]")
  /\ loopStack # <<>>
  /\ LET pos == loopStack[Len(loopStack)] IN
       /\ ofs' = CloseLoop(target, ofs, pos)
       /\ loops' = Append(loops, [pos |-> pos, jmp |-> ofs.cur])
  /\ loopStack' = SubSeq(loopStack, 1, Len(loopStack) - 1)
  /\ i' = i + 1
  /\ UNCHANGED <<pc, ofsOpen, err, ret>>
  /\ UNCHANGED loopFrame

(***************************************************************************)
(* main(): after the loop.                                                 *)
(***************************************************************************)
\* the stack is not empty at the end of the source: diagnostic, return 1
UnmatchedOpen ==
  /\ pc = "loop" /\ i >= Len(source)
  /\ loopStack # <<>>
  /\ err' = Append(err, kErrOpen)
  /\ ret' = 1
  /\ pc' = "done"
  /\ ofsOpen' = FALSE
  /\ UNCHANGED <<ofs, i, loopStack, loops>>
  /\ UNCHANGED loopFrame

\* the epilogue; PE: followed by the 4-byte slot at exitAddrPos
Epilogue ==
  /\ pc = "loop" /\ i >= Len(source)
  /\ loopStack = <<>>
  /\ pc' = "emitted"
  /\ LET o == write(ofs, EpilogueBytes(target)) IN
       IF target = "PE"
       THEN /\ exitAddrPos' = o.cur
            /\ ofs' = write(o, LE(0, 4))
       ELSE /\ exitAddrPos' = exitAddrPos
            /\ ofs' = o
  /\ events' = events \o <<"epilogue">>
  /\ UNCHANGED <<target, srcFile, ifsOpen, ofsOpen, source, isOutputOnly, i,
                 loopStack, codeSize, err, ret, ran, mode, loops, cpu>>

\* mutant: the padding seek goes to the aligned end, not one byte before it
PePadded_PastEnd(o, size) ==
  write(seekcur(o, calcAlignedSize(size, kCodeAlignment) - size), <<0>>)

\* PE: seek to the last byte of the aligned code region and write one zero
PePadded(o, size) ==
  write(seekcur(o, calcAlignedSize(size, kCodeAlignment) - size - 1), <<0>>)

\* mutant: the footer or padding is written before codeSize is computed
Finish_SizedLate ==
  /\ pc = "emitted"
  /\ pc' = "sized"
  /\ LET size == ofs.cur - CodeStart(target) IN
       /\ codeSize' = size
       /\ ofs' = IF target = "PE"
                 THEN PePadded(ofs, size)
                 ELSE write(ofs, ElfFooterBytes(target, size))
  /\ events' = events \o <<IF target = "PE" THEN "padding" ELSE "footer", "codesize">>
  /\ UNCHANGED <<target, srcFile, ifsOpen, ofsOpen, source, isOutputOnly, i,
                 loopStack, exitAddrPos, err, ret, ran, mode, loops, cpu>>

\* codeSize is fixed; ELF: writeFooter, PE: padding
Finish ==
  /\ pc = "emitted"
  /\ pc' = "sized"
  /\ LET size == ofs.cur - CodeStart(target) IN
       /\ codeSize' = size
       /\ ofs' = IF target = "PE"
                 THEN PePadded(ofs, size)
                 ELSE write(ofs, ElfFooterBytes(target, size))
  /\ events' = events \o <<"codesize", IF target = "PE" THEN "padding" ELSE "footer">>
  /\ UNCHANGED <<target, srcFile, ifsOpen, ofsOpen, source, isOutputOnly, i,
                 loopStack, exitAddrPos, err, ret, ran, mode, loops, cpu>>

\* mutant: the exit address is patched one byte early, over the ret
PeWriteHeader_Early(o, size, exitPos, ts) ==
  LET text == kPeHeaderSizeWithPadding + kIdataSizeWithPadding
      o1 == write(o, PeHeaderBytes(size, ts))
      o2 == write(seekp(o1, kPeHeaderSizeWithPadding), PeIdataBytes(size, ts))
      o3 == write(seekp(o2, text + \h07), LE(kPeBaseAddr + IatRva(size), 4))
      o4 == write(seekp(o3, text + \h0f), LE(kPeBaseAddr + IatRva(size) + 8, 4))
      o5 == write(seekp(o4, exitPos - 1), LE(kPeBaseAddr + IatRva(size) + 8 * 2, 4))
  IN write(seekp(o5, text + \h16), LE(kPeBaseAddr + BssRva(size), 4))

\* PE writeHeader: headers, import section, the four patches
PeWriteHeader(o, size, exitPos, ts) ==
  LET text == kPeHeaderSizeWithPadding + kIdataSizeWithPadding
      o1 == write(o, PeHeaderBytes(size, ts))
      o2 == write(seekp(o1, kPeHeaderSizeWithPadding), PeIdataBytes(size, ts))
      o3 == write(seekp(o2, text + \h07), LE(kPeBaseAddr + IatRva(size), 4))
      o4 == write(seekp(o3, text + \h0f), LE(kPeBaseAddr + IatRva(size) + 8, 4))
      o5 == write(seekp(o4, exitPos), LE(kPeBaseAddr + IatRva(size) + 8 * 2, 4))
  IN write(seekp(o5, text + \h16), LE(kPeBaseAddr + BssRva(size), 4))

\* seekp(0), writeHeader, seekp(0, end)
WriteHdr ==
  /\ pc = "sized"
  /\ pc' = "headed"
  /\ \E ts \in TimeStamps :
       ofs' = seekend(
                IF target = "PE"
                THEN PeWriteHeader(seekp(ofs, 0), codeSize, exitAddrPos, ts)
                ELSE write(seekp(ofs, 0), ElfHeaderBytes(target, codeSize)))
  /\ events' = events \o <<"header">>
  /\ UNCHANGED <<target, srcFile, ifsOpen, ofsOpen, source, isOutputOnly, i,
                 loopStack, exitAddrPos, codeSize, err, ret, ran, mode, loops,
                 cpu>>

\* ofs.close()
CloseOut ==
  /\ pc = "headed"
  /\ pc' = (IF target = "PE" THEN "ready" ELSE "closed")
  /\ ofsOpen' = FALSE
  /\ events' = events \o <<"close_dst">>
  /\ UNCHANGED <<target, srcFile, ifsOpen, source, isOutputOnly, ofs, i,
                 loopStack, exitAddrPos, codeSize, err, ret, ran, mode, loops,
                 cpu>>

\* ELF: permissions / chmod to 0755
Chmod ==
  /\ pc = "closed"
  /\ pc' = "ready"
  /\ mode' = 493
  /\ events' = events \o <<"chmod">>
  /\ UNCHANGED <<target, srcFile, ifsOpen, ofsOpen, source, isOutputOnly, ofs,
                 i, loopStack, exitAddrPos, codeSize, err, ret, ran, loops,
                 cpu>>

\* std::system(dstFilePath): the child runs to its end, its status is dropped
System ==
  /\ pc = "ready"
  /\ pc' = "ran"
  /\ \E st \in ChildStatuses : ran' = st
  /\ events' = events \o <<"system">>
  /\ UNCHANGED <<target, srcFile, ifsOpen, ofsOpen, source, isOutputOnly, ofs,
                 i, loopStack, exitAddrPos, codeSize, err, ret, mode, loops,
                 cpu>>

\* mutant: return std::system(dstFilePath)
Return_Status ==
  /\ pc = "ran"
  /\ pc' = "done"
  /\ ret' = ran
  /\ UNCHANGED <<target, srcFile, ifsOpen, ofsOpen, source, isOutputOnly, ofs,
                 i, loopStack, exitAddrPos, codeSize, err, ran, mode, loops,
                 events, cpu>>

\* main() ends without a return statement: it returns 0
Return ==
  /\ pc = "ran"
  /\ pc' = "done"
  /\ ret' = 0
  /\ UNCHANGED <<target, srcFile, ifsOpen, ofsOpen, source, isOutputOnly, ofs,
                 i, loopStack, exitAddrPos, codeSize, err, ran, mode, loops, events, cpu>>

Lower ==
  \/ LowerGt \/ LowerLt \/ LowerPlus \/ LowerMinus \/ LowerDot \/ LowerComma
  \/ LowerOpen \/ LowerClose

Next ==
  \/ OpenSrcFail \/ OpenSrc \/ ReadSrc \/ OpenDstFail \/ OpenDst
  \/ Normalize \/ Prologue
  \/ LowerGt \/ LowerLt \/ LowerPlus \/ LowerMinus \/ LowerDot \/ LowerComma
  \/ LowerOpen \/ LowerClose \/ UnmatchedClose
  \/ UnmatchedOpen \/ Epilogue \/ Finish \/ WriteHdr \/ CloseOut \/ Chmod
  \/ System \/ Return

Spec == Init /\ [][Next]_vars

(***************************************************************************)
(* main() as a running process: while the lowering loop has a step to      *)
(* take, it takes one.                                                     *)
(***************************************************************************)
LoopStep == Lower \/ UnmatchedClose \/ UnmatchedOpen \/ Epilogue
SpecLoop == Init /\ [][Next]_vars /\ WF_vars(LoopStep)

(***************************************************************************)
(* The child that std::system starts: the ELF image run by a Linux kernel. *)
(* The loader maps the file at kBaseAddr and 0x10000 zero bytes at         *)
(* kBssAddr, and starts at e_entry.  cpu.ip is a file offset.  Register    *)
(* values are kept as signed integers.                                     *)
(***************************************************************************)
\* most instructions one child is followed for
MaxSteps == 30
\* what read(0, cell, 1) can deliver: end of input (-1) or one byte
Inputs == {-1, 10, 65}
kTapeSize == \h10000
\* errno values 9, 14, 38 and the statuses 128 + signal of SIGSEGV, SIGILL
EBADF == \h09
EFAULT == \h0e
ENOSYS == \h26
SIGSEGV == \h8b
SIGILL == \h84

\* the register that holds the cell pointer
PtrReg(t) == IF t = "PE" THEN RBX ELSE IF t = "ELF64" THEN RSI ELSE RCX
\* address of the first cell
TapeBase(t, size) == IF IsElf(t) THEN kBssAddr ELSE kPeBaseAddr + BssRva(size)
InTape(c, a) == a >= c.tape /\ a < c.tape + kTapeSize
CellAt(c, a) == IF a \in DOMAIN c.mem THEN c.mem[a] ELSE 0
SetCell(c, a, v) ==
  [c EXCEPT !.mem = [x \in DOMAIN c.mem \cup {a} |-> IF x = a THEN v ELSE c.mem[x]]]
SetReg(c, r, v) == [c EXCEPT !.regs[r] = v]
Halt(c, st) == [c EXCEPT !.halted = TRUE, !.status = st]
\* the byte registers 4..7 are the second bytes of ax, cx, dx, bx
Reg8(c, r) == IF r < 4 THEN c.regs[r] % 256 ELSE (c.regs[r - 4] \div 256) % 256

\* the entry point recorded in the image, as a file offset
EntryOffset(f) == S32(Slice(f, 24, 4)) - kBaseAddr

StartCpu(f, t, size, ok) ==
  [on |-> TRUE, tape |-> TapeBase(t, size), halted |-> FALSE, status |-> 0, ip |-> EntryOffset(f),
   regs |-> [r \in 0..7 |-> 0], mem |-> <<>>, zf |-> FALSE, out |-> <<>>,
   fdOk |-> ok, steps |-> 0]

\* the operand touches memory outside the tape
Faults(c, loc) == loc.k = "mem" /\ ~InTape(c, c.regs[loc.n])
Val(c, loc, size) ==
  CASE loc.k = "imm" -> loc.n
    [] loc.k = "reg" -> IF size = 8 THEN Reg8(c, loc.n) ELSE c.regs[loc.n]
    [] loc.k = "mem" -> CellAt(c, c.regs[loc.n])
    [] OTHER -> 0
\* store v; only bytes go to memory and only whole registers are written
Put(c, loc, size, v) ==
  CASE loc.k = "reg" /\ size # 8 -> SetReg(c, loc.n, v)
    [] loc.k = "mem" /\ size = 8 -> SetCell(c, c.regs[loc.n], v % 256)
    [] OTHER -> Halt(c, SIGILL)

\* write(fd, buf, 1): the result left in the accumulator, and the output
SysWrite(c, fd, buf) ==
  CASE fd # 1 \/ ~c.fdOk -> SetReg(c, RAX, -EBADF)
    [] ~InTape(c, buf) -> SetReg(c, RAX, -EFAULT)
    [] OTHER -> SetReg([c EXCEPT !.out = Append(c.out, CellAt(c, buf))], RAX, 1)
\* read(0, buf, 1) when the input delivers inp
SysRead(c, fd, buf, inp) ==
  CASE fd # 0 -> SetReg(c, RAX, -EBADF)
    [] inp = -1 -> SetReg(c, RAX, 0)
    [] ~InTape(c, buf) -> SetReg(c, RAX, -EFAULT)
    [] OTHER -> SetReg(SetCell(c, buf, inp), RAX, 1)

\* int 0x80 of Linux i386: number in eax, arguments in ebx, ecx, edx; the
\* result comes back in eax and the other registers are preserved
Int80(c, inp) ==
  LET nr == c.regs[RAX]
  IN CASE nr = 1 -> Halt(c, c.regs[RBX] % 256)
       [] nr = 3 /\ c.regs[RDX] = 1 -> SysRead(c, c.regs[RBX], c.regs[RCX], inp)
       [] nr = 4 /\ c.regs[RDX] = 1 -> SysWrite(c, c.regs[RBX], c.regs[RCX])
       [] OTHER -> SetReg(c, RAX, -ENOSYS)
\* syscall of Linux x86-64: number in rax, arguments in rdi, rsi, rdx; the
\* result comes back in rax and rcx receives the return address
Syscall(c, inp, next) ==
  LET nr == c.regs[RAX]
      d == SetReg(c, RCX, kBaseAddr + next)
  IN CASE nr = 60 -> Halt(c, c.regs[RDI] % 256)
       [] nr = 0 /\ c.regs[RDX] = 1 -> SysRead(d, c.regs[RDI], c.regs[RSI], inp)
       [] nr = 1 /\ c.regs[RDX] = 1 -> SysWrite(d, c.regs[RDI], c.regs[RSI])
       [] OTHER -> SetReg(d, RAX, -ENOSYS)

\* the effect of instruction ins, the instruction pointer aside
Effect(c, ins, inp, next) ==
  LET a == Val(c, ins.dst, ins.size)
      b == Val(c, ins.src, ins.size)
  IN CASE Faults(c, ins.dst) \/ Faults(c, ins.src) -> Halt(c, SIGSEGV)
       [] ins.op = "mov" -> Put(c, ins.dst, ins.size, b)
       [] ins.op = "add" -> Put(c, ins.dst, ins.size, a + b)
       [] ins.op = "sub" -> Put(c, ins.dst, ins.size, a - b)
       [] ins.op = "inc" -> Put(c, ins.dst, ins.size, a + 1)
       [] ins.op = "dec" -> Put(c, ins.dst, ins.size, a - 1)
       [] ins.op = "xor" /\ ins.dst = ins.src -> Put(c, ins.dst, ins.size, 0)
       [] ins.op = "cmp" -> [c EXCEPT !.zf = (a = b)]
       [] ins.op \in {"je", "jmp"} -> c
       [] ins.op = "int" /\ ins.src.n = \h80 -> Int80(c, inp)
       [] ins.op = "syscall" -> Syscall(c, inp, next)
       [] OTHER -> Halt(c, SIGILL)

\* one instruction of the child
Step(c, f, t, inp) ==
  LET ins == Decode(f, c.ip, t)
      next == c.ip + ins.len
      d == Effect(c, ins, inp, next)
      to == IF ins.op = "jmp" \/ (ins.op = "je" /\ c.zf) THEN ins.src.n ELSE next
  IN [d EXCEPT !.ip = IF d.halted THEN c.ip ELSE to, !.steps = c.steps + 1]

\* std::system(dstFilePath) starts the child; its standard output is
\* either writable or not
Exec ==
  /\ pc = "ready"
  /\ pc' = "child"
  /\ \E ok \in BOOLEAN : cpu' = StartCpu(ofs.img, target, codeSize, ok)
  /\ UNCHANGED <<target, srcFile, ifsOpen, ofsOpen, source, isOutputOnly, ofs,
                 i, loopStack, exitAddrPos, codeSize, err, ret, ran, mode,
                 loops, events>>

ChildStep ==
  /\ pc = "child"
  /\ ~cpu.halted
  /\ cpu.steps < MaxSteps
  /\ \E inp \in Inputs : cpu' = Step(cpu, ofs.img, target, inp)
  /\ UNCHANGED <<target, srcFile, pc, ifsOpen, ofsOpen, source, isOutputOnly,
                 ofs, i, loopStack, exitAddrPos, codeSize, err, ret, ran,
                 mode, loops, events>>

\* std::system returns once the child has ended
Wait ==
  /\ pc = "child"
  /\ cpu.halted
  /\ pc' = "ran"
  /\ ran' = cpu.status
  /\ events' = events \o <<"system">>
  /\ UNCHANGED <<target, srcFile, ifsOpen, ofsOpen, source, isOutputOnly, ofs,
                 i, loopStack, exitAddrPos, codeSize, err, ret, mode, loops,
                 cpu>>

ElfTargets == {"ELF64", "ELF32"}
InitChild == \E t \in ElfTargets, src \in Sources : InitWith(t, src)
NextChild ==
  \/ OpenSrcFail \/ OpenSrc \/ ReadSrc \/ OpenDstFail \/ OpenDst
  \/ Normalize \/ Prologue
  \/ LowerGt \/ LowerLt \/ LowerPlus \/ LowerMinus \/ LowerDot \/ LowerComma
  \/ LowerOpen \/ LowerClose \/ UnmatchedClose
  \/ UnmatchedOpen \/ Epilogue \/ Finish \/ WriteHdr \/ CloseOut \/ Chmod
  \/ Exec \/ ChildStep \/ Wait \/ Return

SpecChild == InitChild /\ [][NextChild]_vars

(***************************************************************************)
(* Run folding: main() on sources that consist of one long run of a        *)
(* folded command, alone or split by a comment character and followed by   *)
(* a '.', with both files opening.                                         *)
(***************************************************************************)
RunChars == {"+", "-", ">", "<"}
RunSources ==
  {Rep(ch, n) : ch \in RunChars, n \in 1..MaxRun}
    \cup {<<ch, "x">> \o Rep(ch, n) \o <<".">> : ch \in RunChars, n \in 1..MaxRun}
InitRun == \E t \in Targets, src \in RunSources : InitWith(t, src)
NextRun ==
  \/ OpenSrc \/ ReadSrc \/ OpenDst \/ Normalize \/ Prologue
  \/ LowerGt \/ LowerLt \/ LowerPlus \/ LowerMinus \/ LowerDot \/ Epilogue

SpecRun == InitRun /\ [][NextRun]_vars

(***************************************************************************)
(* Header layout: main() on sources whose code is a few bytes long or      *)
(* ends just below, on and just above one code alignment unit of the PE    *)
(* generator, with both files opening, up to the chmod.                    *)
(***************************************************************************)
HdrDots == {0, 1, MaxDots - 1, MaxDots}
HdrTails == {<<>>, <<"+">>, <<">">>, <<"+", "-">>, <<"+", "<">>}
HdrSources == {Rep(".", k) \o tl : k \in HdrDots, tl \in HdrTails}
InitHdr == \E t \in Targets, src \in HdrSources : InitWith(t, src)
NextHdr ==
  \/ OpenSrc \/ ReadSrc \/ OpenDst \/ Normalize \/ Prologue
  \/ LowerGt \/ LowerLt \/ LowerPlus \/ LowerMinus \/ LowerDot
  \/ Epilogue \/ Finish \/ WriteHdr \/ CloseOut \/ Chmod

SpecHdr == InitHdr /\ [][NextHdr]_vars

(***************************************************************************)
(* Jump selection: main() on sources that are one loop whose body grows    *)
(* byte by byte across the reach of the short jmp, with both files         *)
(* opening, up to the epilogue.                                            *)
(***************************************************************************)
JmpSources ==
  {<<"[">> \o Rep(".", k) \o tl \o <<"]">> : k \in 0..MaxBody, tl \in HdrTails}
InitJmp == \E t \in Targets, src \in JmpSources : InitWith(t, src)
NextJmp ==
  \/ OpenSrc \/ ReadSrc \/ OpenDst \/ Normalize \/ Prologue
  \/ LowerGt \/ LowerLt \/ LowerPlus \/ LowerMinus \/ LowerDot
  \/ LowerOpen \/ LowerClose \/ Epilogue

SpecJmp == InitJmp /\ [][NextJmp]_vars

(***************************************************************************)
(* Vocabulary of the checked properties.                                   *)
(***************************************************************************)
\* #'[' - #']' among the first k characters of str
RECURSIVE Depth(_, _)
Depth(str, k) ==
  IF k = 0 THEN 0
  ELSE Depth(str, k - 1)
         + (IF str[k] = "[" THEN 1 ELSE IF str[k] = "]" THEN -1 ELSE 0)

\* some prefix has more ']' than '['
Underflows(str) == \E k \in 1..Len(str) : Depth(str, k) < 0
\* 0-based index of the first ']' that makes a prefix negative
FirstUnderflow(str) ==
  CHOOSE k \in 0..(Len(str) - 1) :
    Depth(str, k + 1) < 0 /\ \A j \in 1..k : Depth(str, j) >= 0
Balanced(str) == ~Underflows(str) /\ Depth(str, Len(str)) = 0

\* one of the files could not be opened
OpenFailed == \E k \in 1..Len(err) : err[k] \in {kErrSrc, kErrDst(target)}
\* main() has returned after the lowering loop was entered
Compiled == pc = "done" /\ ~OpenFailed
\* the epilogue has been emitted
PastLoop == \E k \in 1..Len(events) : events[k] = "epilogue"
\* the finalization pass has written the container header
Finalized == \E k \in 1..Len(events) : events[k] = "header"

\* the container's magic at offset 0
Magic(t) == IF t = "PE" THEN <<\h4d, \h5a>> ELSE <<\h7f, \h45, \h4c, \h46>>
HasMagic == Slice(ofs.img, 0, Len(Magic(target))) = Magic(target)
\* no byte of the header region has been written
NoHeaderByte == \A o \in DOMAIN ofs.img : o >= CodeStart(target)

(***************************************************************************)
(* C1: compilation reaches the finalization pass (epilogue, header with    *)
(* the container's magic at offset 0, child executed) exactly when the     *)
(* brackets of the normalized source are balanced; otherwise main returns  *)
(* 1 and no header byte was written.  The [+]/[-] peephole does not        *)
(* change this.                                                            *)
(***************************************************************************)
C1_FinalizedIffBalanced ==
  /\ PastLoop => Balanced(source)
  /\ Finalized => HasMagic
  /\ ~Finalized => NoHeaderByte
  /\ Compiled =>
       IF Balanced(source)
       THEN Finalized /\ HasMagic /\ ran # -1 /\ ret # 1
       ELSE ret = 1 /\ ~PastLoop /\ NoHeaderByte /\ ran = -1

\* a compiled source that contains the peephole window
C1_Witness ==
  /\ Compiled /\ Finalized /\ HasMagic
  /\ \E k \in 0..(Len(source) - 1) : At(source, k) = "[" /\ IsZeroStore(source, k)

(***************************************************************************)
(* C2: in the final image, for every loop lowered as a real loop, the je   *)
(* emitted at '[' branches to the byte right after the matching jmp, and   *)
(* the jmp emitted at ']' branches to the first byte of the matching cmp.  *)
(***************************************************************************)
LoopLinked(f, t, l) ==
  LET cmp == Decode(f, l.pos, t)
      je == Decode(f, l.pos + cmp.len, t)
      jmp == Decode(f, l.jmp, t)
  IN /\ cmp.op = "cmp"
     /\ je.op = "je"
     /\ jmp.op = "jmp"
     /\ je.src.n = l.jmp + jmp.len
     /\ jmp.src.n = l.pos

C2_LoopsLinked ==
  Finalized => \A k \in 1..Len(loops) : LoopLinked(ofs.img, target, loops[k])

\* a final image with a loop closed by a near jmp
C2_Witness ==
  /\ Finalized
  /\ \E k \in 1..Len(loops) : Decode(ofs.img, loops[k].jmp, target).len = 5

(***************************************************************************)
(* C3 as stated: on the success path main's exit status equals the status  *)
(* std::system returned for the child, whatever that status is.            *)
(***************************************************************************)
C3_StatusPropagated == (pc = "done" /\ ran # -1) => ret = ran

(***************************************************************************)
(* C3 amended: on the success path main's exit status is 0 whatever        *)
(* status std::system returned for the child.                              *)
(***************************************************************************)
C3_StatusDropped == (pc = "done" /\ ran # -1) => ret = 0

\* main has returned after a child that ended with a non-zero status
C3_Witness == pc = "done" /\ ran = 139 /\ ret = 0

(***************************************************************************)
(* C4: a bracket error gives exactly one diagnostic and status 1.  A       *)
(* prefix with more ']' than '[' stops the compiler at the first such ']'  *)
(* with the "'[' ... not found" message and no later token is lowered;     *)
(* otherwise '[' left open are reported with the "']' ... not found"       *)
(* message after all tokens were processed.  Neither epilogue, footer nor  *)
(* header is written and the child is not executed.                        *)
(***************************************************************************)
C4_BracketErrors ==
  Compiled =>
    /\ Underflows(source) =>
         /\ err = <<kErrClose>>
         /\ i = FirstUnderflow(source)
    /\ (~Underflows(source) /\ Depth(source, Len(source)) > 0) =>
         /\ err = <<kErrOpen>>
         /\ i = Len(source)
    /\ Balanced(source) => err = <<>>
    /\ err # <<>> =>
         /\ ret = 1
         /\ ran = -1
         /\ NoHeaderByte
         /\ \A k \in 1..Len(events) :
              events[k] \notin {"epilogue", "footer", "padding", "header", "system"}
         /\ ofs.cur = ofs.len

\* stopped at an unmatched ']' with tokens left behind it, after a loop
\* was opened and closed
C4_Witness ==
  /\ Compiled
  /\ err = <<kErrClose>>
  /\ i + 1 < Len(source)
  /\ loops # <<>>

(***************************************************************************)
(* C5: at a '[' followed by one '+' or '-' and then ']' (also as the last  *)
(* three characters of the source) the generator emits exactly one store   *)
(* of zero, the same bytes for [+] and [-], leaves the loop stack alone    *)
(* and resumes after the ']'; at any other '[' it pushes exactly one       *)
(* entry.                                                                  *)
(***************************************************************************)
C5_Window(str, k) ==
  /\ k + 2 <= Len(str) - 1
  /\ At(str, k + 1) \in {"+", "-"}
  /\ At(str, k + 2) = "]"

\* the bytes the step appended at the cursor
Emitted == Slice(ofs'.img, ofs.cur, ofs'.cur - ofs.cur)

\* the instruction at offset a stores zero to the current cell
StoresZero(f, a, t) ==
  LET ins == Decode(f, a, t) IN
    /\ ins.op = "mov" /\ ins.size = 8
    /\ ins.dst = Loc("mem", PtrReg(t))
    /\ ins.src \in {Loc("imm", 0), Loc("reg", DH)}

C5_Step ==
  (pc = "loop" /\ i < Len(source) /\ At(source, i) = "[" /\ pc' = "loop") =>
    IF C5_Window(source, i)
    THEN /\ loopStack' = loopStack
         /\ i' = i + 3
         /\ Emitted = ZeroStoreBytes(target)
         /\ StoresZero(ofs'.img, ofs.cur, target)
         /\ Decode(ofs'.img, ofs.cur, target).len = ofs'.cur - ofs.cur
    ELSE /\ loopStack' = Append(loopStack, ofs.cur)
         /\ i' = i + 1

C5_Peephole == [][C5_Step]_vars

\* the peephole has consumed the last three characters of the source
C5_Witness ==
  /\ pc = "loop" /\ i = Len(source) /\ i >= 3
  /\ At(source, i - 3) = "[" /\ C5_Window(source, i - 3)

(***************************************************************************)
(* C6: x86 ELF target, source without ','.  The child stands at an         *)
(* `int 0x80` that a '.' was lowered to (every `int 0x80` before the one   *)
(* that ends the epilogue).                                                *)
(***************************************************************************)
AtDotInt ==
  /\ pc = "child"
  /\ target = "ELF32"
  /\ isOutputOnly
  /\ ~cpu.halted
  /\ Decode(ofs.img, cpu.ip, target).op = "int"
  /\ cpu.ip + 2 < CodeStart(target) + codeSize

\* C6: in output-only mode every `int 0x80` lowered from '.' is executed
\* with eax = 4, ebx = 1, edx = 1 and ecx pointing at the current cell, each
\* time it is executed, so that it writes the cell to fd 1.  (ecx is the
\* cell pointer itself; the statement is about the three hoisted registers.)
C6_EveryDotWrites ==
  AtDotInt =>
    /\ cpu.regs[RAX] = 4
    /\ cpu.regs[RBX] = 1
    /\ cpu.regs[RDX] = 1

\* a '.' is reached after an earlier '.' wrote its byte: eax holds the
\* result 1 of that write, and the `int 0x80` is exit(1)
C6_Witness ==
  /\ AtDotInt
  /\ InTape(cpu, cpu.regs[RCX])
  /\ cpu.out # <<>>
  /\ cpu.regs[RAX] = 1
  /\ cpu.regs[RBX] = 1

(***************************************************************************)
(* C7, C8: what the bytes emitted for a run do to a cell and to the cell   *)
(* pointer, executed on a processor whose pointer register addresses a     *)
(* cell in the middle of the tape.                                         *)
(***************************************************************************)
TestPtr(t) == TapeBase(t, 0) + \h8000
TestCpu(t, c) ==
  [on |-> TRUE, tape |-> TapeBase(t, 0), halted |-> FALSE, status |-> 0,
   ip |-> 0, regs |-> [r \in 0..7 |-> IF r = PtrReg(t) THEN TestPtr(t) ELSE 0],
   mem |-> (TestPtr(t) :> c), zf |-> FALSE, out |-> <<>>, fdOk |-> TRUE,
   steps |-> 0]
\* the processor after the emitted bytes bs, which hold the instruction ins
\* or nothing
AfterBytes(t, bs, ins, c) ==
  IF bs = <<>> THEN TestCpu(t, c) ELSE Effect(TestCpu(t, c), ins, -1, Len(bs))
\* one single step of d on an 8-bit wrapping cell
Wrapped(c, d) == (c + d) % 256

\* the lowering step stands at the start of a run of ch
AtRun(ch) == pc = "loop" /\ i < Len(source) /\ At(source, i) = ch
\* the step consumed exactly the maximal run of ch that starts at i
TookRun(ch) ==
  /\ i' > i
  /\ \A j \in i..(i' - 1) : At(source, j) = ch
  /\ (i' < Len(source) => At(source, i') # ch)

C7_StepOf(ch, name1, name8, d) ==
  AtRun(ch) =>
    \A n \in {i' - i}, bs \in {Emitted}, ins \in {Decode(ofs'.img, ofs.cur, target)} :
       /\ TookRun(ch)
       /\ pc' = "loop"
       /\ (n % 256 = 0) => bs = <<>>
       /\ (n % 256 = 1) =>
            ins = Ins(Len(bs), name1, 8, Loc("mem", PtrReg(target)), NoLoc)
       /\ (n % 256 > 1) =>
            ins = Ins(Len(bs), name8, 8, Loc("mem", PtrReg(target)),
                      Loc("imm", n % 256))
       /\ \A c \in 0..255 :
            LET after == AfterBytes(target, bs, ins, c) IN
              /\ ~after.halted
              /\ after.regs = TestCpu(target, c).regs
              /\ after.mem = (TestPtr(target) :> ((c + d * n) % 256))
       \* n single steps: one more step after n - 1 of them
       /\ \A c \in 0..255 :
            Wrapped((c + d * (n - 1)) % 256, d) = (c + d * n) % 256

\* C7: a maximal run of n '+' ('-') emits nothing when n mod 256 = 0,
\* inc (dec) byte [ptr] when n mod 256 = 1 and add (sub) byte [ptr], n mod 256
\* otherwise, and for every cell value c in 0..255 the emitted code leaves
\* the cell at (c + n) mod 256 ((c - n) mod 256), as n single steps would.
C7_Step == C7_StepOf("+", "inc", "add", 1) /\ C7_StepOf("-", "dec", "sub", -1)
C7_CellRuns == [][C7_Step]_vars

\* a run of 258 '-' has been lowered by the PE generator to one 3-byte sub
C7_Witness ==
  /\ pc = "loop" /\ target = "PE"
  /\ source = Rep("-", 258) /\ i = 258
  /\ ofs.cur = CodeStart(target) + Len(PrologueBytes(target, isOutputOnly)) + 3

\* position of the opcode byte in the emitted instruction (after REX.W)
OpcodeAt(t) == IF t = "ELF32" THEN 1 ELSE 2

C8_StepOf(ch, name1, name, d) ==
  AtRun(ch) =>
    LET n == i' - i
        ins == Decode(ofs'.img, ofs.cur, target)
        reg == Loc("reg", PtrReg(target))
        size == IF target = "ELF32" THEN 32 ELSE 64
        after == AfterBytes(target, Emitted, ins, 0)
    IN /\ TookRun(ch)
       /\ pc' = "loop"
       /\ (n = 1) => ins = Ins(Len(Emitted), name1, size, reg, NoLoc)
       /\ (n >= 2 /\ n <= 127) =>
            /\ ins = Ins(Len(Emitted), name, size, reg, Loc("imm", n))
            /\ Emitted[OpcodeAt(target)] = \h83
            /\ Len(Emitted) = OpcodeAt(target) + 2
       /\ (n > 127) =>
            /\ ins = Ins(Len(Emitted), name, size, reg, Loc("imm", n))
            /\ Emitted[OpcodeAt(target)] = \h81
            /\ Len(Emitted) = OpcodeAt(target) + 5
       /\ ~after.halted
       /\ after.regs[PtrReg(target)] = TestPtr(target) + d * n
       /\ after.mem = TestCpu(target, 0).mem
       \* an 8-bit immediate is never one that sign-extends to a negative
       /\ Emitted[OpcodeAt(target)] = \h83 =>
            Emitted[Len(Emitted)] < 128

\* C8: a maximal run of n '>' ('<') emits inc (dec) of the pointer register
\* when n = 1, add (sub) with the 8-bit immediate n when 2 <= n <= 127 and
\* with the 32-bit immediate n when n > 127; with the 8-bit immediate
\* sign-extended as the processor does, the pointer changes by exactly +n
\* (-n), so no 8-bit immediate that would read as negative is emitted.
C8_Step == C8_StepOf(">", "inc", "add", 1) /\ C8_StepOf("<", "dec", "sub", -1)
C8_PtrRuns == [][C8_Step]_vars

\* a run of 128 '>' has been lowered by the x86 ELF generator to a 6-byte add
C8_Witness ==
  /\ pc = "loop" /\ target = "ELF32"
  /\ source = Rep(">", 128) /\ i = 128
  /\ Slice(ofs.img, ofs.cur - 6, 6) = <<\h81, \hc1, 128, 0, 0, 0>>

(***************************************************************************)
(* C9, C10: the fields of the finished file, read back from its bytes.     *)
(***************************************************************************)
\* the 4-byte field at offset o, and the W(t)-byte field (upper half zero)
Field4(o) == S32(Slice(ofs.img, o, 4))
FieldW(t, o) == Field4(o)
UpperZero(t, o) == t = "ELF64" => Slice(ofs.img, o + 4, 4) = Zeros(4)

\* IMAGE_OPTIONAL_HEADER64 and the IMAGE_SECTION_HEADERs follow the DOS
\* header (64), the DOS stub (64), the signature (4) and the file header (20)
PeOpt == 64 + 64 + 4 + 20
PeSec(k) == PeOpt + 240 + 40 * k
PeSizeOfImage == Field4(PeOpt + 56)
PeSizeOfHeaders == Field4(PeOpt + 60)
PeImportRva == Field4(PeOpt + 112 + 8)
PeVirtualSize(k) == Field4(PeSec(k) + 8)
PeVirtualAddress(k) == Field4(PeSec(k) + 12)
\* the least multiple of a that is not below n
AlignedUp(n, a) == CHOOSE m \in {k * a : k \in 0..(n \div a + 1)} : m >= n /\ m < n + a
\* the RVA ranges of sections j and k have no address in common
PeDisjoint(j, k) ==
  \/ PeVirtualAddress(j) + PeVirtualSize(j) <= PeVirtualAddress(k)
  \/ PeVirtualAddress(k) + PeVirtualSize(k) <= PeVirtualAddress(j)

\* C9: in every finished PE file SizeOfHeaders = 0x200, SizeOfImage =
\* 0x10000 + align(codeSize, 0x1000) + 2 * 0x1000 = .bss RVA + 0x10000, .text is
\* at RVA 0x1000, .idata at 0x1000 + align(codeSize, 0x1000), .bss 0x1000
\* above .idata, the import directory RVA is the .idata RVA, and the RVA
\* ranges of the three sections are pairwise disjoint.
C9_PeLayout ==
  (target = "PE" /\ Finalized) =>
    LET aligned == AlignedUp(codeSize, \h1000) IN
      /\ codeSize = exitAddrPos + 4 - CodeStart(target)
      /\ PeSizeOfHeaders = \h200
      /\ PeSizeOfImage = \h10000 + aligned + 2 * \h1000
      /\ PeSizeOfImage = PeVirtualAddress(2) + \h10000
      /\ Slice(ofs.img, PeSec(0), 8) = <<\h2e, \h74, \h65, \h78, \h74, 0, 0, 0>>
      /\ Slice(ofs.img, PeSec(1), 8) = <<\h2e, \h69, \h64, \h61, \h74, \h61, 0, 0>>
      /\ Slice(ofs.img, PeSec(2), 8) = <<\h2e, \h62, \h73, \h73, 0, 0, 0, 0>>
      /\ PeVirtualAddress(0) = \h1000
      /\ PeVirtualAddress(1) = \h1000 + aligned
      /\ PeVirtualAddress(2) = PeVirtualAddress(1) + \h1000
      /\ PeImportRva = PeVirtualAddress(1)
      /\ PeVirtualSize(0) = codeSize
      /\ PeVirtualSize(2) = \h10000
      /\ PeDisjoint(0, 1) /\ PeDisjoint(1, 2) /\ PeDisjoint(0, 2)

\* a finished PE file whose code is longer than one alignment unit
C9_Witness ==
  /\ target = "PE" /\ Finalized
  /\ codeSize > \h1000
  /\ PeVirtualAddress(1) = \h3000

\* offsets of the fields in Elf64_Ehdr / Elf32_Ehdr, the first Phdr and a Shdr
\* e_entry follows e_ident, e_type, e_machine and e_version
ElfEntryAt == 16 + 2 + 2 + 4
ElfShoffAt(t) == IF t = "ELF64" THEN 40 ELSE 32
ElfShnumAt(t) == IF t = "ELF64" THEN 60 ELSE 48
ElfFileszAt(t) == SizeofEhdr(t) + (IF t = "ELF64" THEN 32 ELSE 16)
ShOffsetAt(t) == IF t = "ELF64" THEN 24 ELSE 16
ShSizeAt(t) == IF t = "ELF64" THEN 32 ELSE 20
\* section header k of the finished file
ElfShdr(t, k) == FieldW(t, ElfShoffAt(t)) + k * SizeofShdr(t)
\* the NUL-terminated name at index n of the string table at offset tab
NameIs(tab, n, name) == Slice(ofs.img, tab + n, Len(name) + 1) = name \o <<0>>

\* C10: in every finished ELF file the offsets in the headers are the
\* positions the data was written at: e_entry = base + header size, .text
\* sh_offset = sizeof(Ehdr) + 2 * sizeof(Phdr) is the first code byte and its
\* sh_size is codeSize; .shstrtab sh_offset = header size + codeSize is the
\* first byte of the string table; e_shoff = header size + codeSize +
\* sizeof(strtab) is the first of the 4 section headers, which end the file;
\* the first PT_LOAD's p_filesz is the file length; sh_name 1, 7, 17 are the
\* starts of ".text", ".shstrtab", ".bss" in the string table.
C10_ElfOffsets ==
  (IsElf(target) /\ Finalized) =>
    LET t == target
        hdr == SizeofEhdr(t) + 2 * SizeofPhdr(t)
        tab == FieldW(t, ElfShdr(t, 1) + ShOffsetAt(t))
        text == FieldW(t, ElfShdr(t, 2) + ShOffsetAt(t))
        size == FieldW(t, ElfShdr(t, 2) + ShSizeAt(t))
        prologue == PrologueBytes(t, isOutputOnly)
        epilogue == EpilogueBytes(t)
    IN /\ FieldW(t, ElfEntryAt) = kBaseAddr + hdr
       /\ UpperZero(t, ElfEntryAt) /\ UpperZero(t, ElfShoffAt(t))
       /\ text = hdr
       /\ Slice(ofs.img, text, Len(prologue)) = prologue
       /\ size = codeSize
       /\ Slice(ofs.img, text + size - Len(epilogue), Len(epilogue)) = epilogue
       /\ tab = hdr + codeSize
       /\ tab = text + size
       /\ Slice(ofs.img, tab, 22) = kShStrTab
       /\ FieldW(t, ElfShdr(t, 1) + ShSizeAt(t)) = 22
       /\ FieldW(t, ElfShoffAt(t)) = hdr + codeSize + 22
       /\ ElfShdr(t, 0) = tab + 22
       /\ U16(Slice(ofs.img, ElfShnumAt(t), 2)) = 4
       /\ ElfShdr(t, 4) = ofs.len
       /\ Slice(ofs.img, ElfShdr(t, 0), SizeofShdr(t)) = Zeros(SizeofShdr(t))
       /\ FieldW(t, ElfFileszAt(t)) = ofs.len
       /\ ofs.len = 1 + CHOOSE o \in DOMAIN ofs.img : \A p \in DOMAIN ofs.img : p <= o
       /\ Field4(ElfShdr(t, 1)) = 7 /\ NameIs(tab, 7, <<46, 115, 104, 115, 116, 114, 116, 97, 98>>)
       /\ Field4(ElfShdr(t, 2)) = 1 /\ NameIs(tab, 1, <<46, 116, 101, 120, 116>>)
       /\ Field4(ElfShdr(t, 3)) = 17 /\ NameIs(tab, 17, <<46, 98, 115, 115>>)

\* a finished 64-bit ELF file with more than a thousand bytes of code
C10_Witness ==
  /\ target = "ELF64" /\ Finalized
  /\ codeSize > 1000
  /\ Slice(ofs.img, ofs.len - 4 * SizeofShdr(target) - 22, 22) = kShStrTab

(***************************************************************************)
(* C11: the two file handles.                                              *)
(***************************************************************************)
\* main() is between the opening of the output file and ofs.close(): code
\* generation and the writing of the header
Compiling ==
  pc \in {"opened", "normalized", "prologued", "loop", "emitted", "sized", "headed"}

\* C11 as stated: both handles are open during the whole compilation
\* (code generation and header writing) and both are released when main()
\* has returned, on the error paths too.
C11_BothHeld ==
  /\ Compiling => (ifsOpen /\ ofsOpen)
  /\ pc = "done" => (~ifsOpen /\ ~ofsOpen)

\* C11 amended: the input handle is open only while the source is read and
\* is closed before the output file is opened; the output handle is open
\* through code generation and header writing; the two are never open
\* together; neither is open when the child runs or main() has returned.
C11_Handles ==
  /\ ifsOpen => pc = "srcopen"
  /\ Compiling => (ofsOpen /\ ~ifsOpen)
  /\ ofsOpen => Compiling
  /\ ~(ifsOpen /\ ofsOpen)
  /\ pc \in {"closed", "ready", "child", "ran", "done"} => (~ifsOpen /\ ~ofsOpen)

\* code generation is under way with the input handle already closed
C11_Witness ==
  /\ pc = "loop" /\ i > 0
  /\ ofsOpen /\ ~ifsOpen

(***************************************************************************)
(* C12: the bytes emitted at a '[' that is not folded into a zero store.   *)
(***************************************************************************)
\* the step lowers a '[' by pushing the cursor and emitting, at the saved
\* position, a compare of the current cell with zero followed by a je whose
\* rel32 is 0, elf bytes long in all on the ELF targets and pe on PE
C12_StepOf(elf, pe) ==
  (pc = "loop" /\ i < Len(source) /\ At(source, i) = "[" /\ pc' = "loop"
     /\ ~C5_Window(source, i)) =>
    \A saved \in {ofs.cur}, f \in {ofs'.img} :
      LET cmp == Decode(f, saved, target)
          je == Decode(f, saved + cmp.len, target)
      IN /\ loopStack' = Append(loopStack, saved)
         /\ cmp.op = "cmp" /\ cmp.size = 8
         /\ cmp.dst = Loc("mem", PtrReg(target))
         /\ cmp.src \in {Loc("imm", 0), Loc("reg", DH)}
         /\ je.op = "je"
         /\ Slice(f, saved + cmp.len + 2, 4) = Zeros(4)
         /\ ofs'.cur = saved + cmp.len + je.len
         /\ ofs'.cur = saved + (IF IsElf(target) THEN elf ELSE pe)
         /\ ofs'.len = ofs'.cur

\* C12 as stated: cmp and je take 6 bytes on the ELF targets and 7 on PE
C12_SixSeven == [][C12_StepOf(6, 7)]_vars

\* C12 amended: cmp and je take 8 bytes on the ELF targets (2 + 6) and 9
\* on PE (3 + 6), and the cursor after '[' is savedPos + 8 or savedPos + 9
C12_EightNine == [][C12_StepOf(8, 9)]_vars

\* a loop head has been emitted by the PE generator right after the prologue
C12_Witness ==
  /\ pc = "loop" /\ target = "PE"
  /\ Len(loopStack) = 1 /\ i = 1
  /\ ofs.cur = loopStack[1] + 9
  /\ Slice(ofs.img, loopStack[1], 9) = <<\h80, \h3b, 0, \h0f, \h84, 0, 0, 0, 0>>

(***************************************************************************)
(* C13: the jmp emitted at ']' with the saved position P on top of the     *)
(* loop stack and the cursor at C.                                         *)
(***************************************************************************)
C13_Step ==
  (pc = "loop" /\ i < Len(source) /\ At(source, i) = "]" /\ loopStack # <<>>) =>
    \A P \in {loopStack[Len(loopStack)]}, C \in {ofs.cur}, f \in {ofs'.img} :
      LET jmp == Decode(f, C, target) IN
        /\ jmp.op = "jmp"
        /\ ofs'.cur = C + jmp.len
        /\ IF P - (C + 2) >= -128
           THEN /\ C - P <= 126
                /\ ByteAt(f, C) = \heb /\ jmp.len = 2
                /\ S8(ByteAt(f, C + 1)) \in -128..-1
                /\ S8(ByteAt(f, C + 1)) = P - (C + 2)
           ELSE /\ C - P > 126
                /\ ByteAt(f, C) = \he9 /\ jmp.len = 5
                /\ S32(Slice(f, C + 1, 4)) = P - (C + 5)
        \* the displacement counts from the byte after the jmp
        /\ jmp.src.n = P

\* C13: at ']' the 2-byte `jmp rel8` is emitted exactly when P - (C + 2) is
\* at least -128 (C - P <= 126) and the 5-byte `jmp rel32` otherwise; the
\* rel8 is in -128..-1 and in both forms the displacement is P minus the
\* address of the byte after the jmp.
C13_JmpForm == [][C13_Step]_vars

\* a loop has been closed just past the reach of the short form: by a near
\* jmp 127 bytes after the saved position
C13_Witness ==
  /\ pc = "loop" /\ loops # <<>>
  /\ loops[1].jmp - loops[1].pos = 127
  /\ ByteAt(ofs.img, loops[1].jmp) = \he9

(***************************************************************************)
(* C14: the three pushes that open the PE code and the three pops that     *)
(* open its epilogue, read from the emitted bytes.                         *)
(***************************************************************************)
\* the epilogue starts 7 bytes before the slot that follows its ret
PeEpilogueAt == exitAddrPos - 7
\* the register of the k-th push and of the k-th pop, 0 when it is no push/pop
PushReg(k) ==
  LET ins == Decode(ofs.img, CodeStart(target) + k - 1, target)
  IN IF ins.op = "push" THEN ins.src.n ELSE 0
PopReg(k) ==
  LET ins == Decode(ofs.img, PeEpilogueAt + k - 1, target)
  IN IF ins.op = "pop" THEN ins.dst.n ELSE 0
PushRegs == <<PushReg(1), PushReg(2), PushReg(3)>>
PopRegs == <<PopReg(1), PopReg(2), PopReg(3)>>
\* the register whose entry value the k-th pop loads: the pops take the
\* pushed values last in, first out (the code in between leaves rsp as it
\* found it)
PoppedFrom(k) == PushRegs[4 - k]
\* the register whose entry value register r holds after the epilogue
HoldsAfter(r) ==
  IF \E k \in 1..3 : PopRegs[k] = r
  THEN PoppedFrom(CHOOSE k \in 1..3 : PopRegs[k] = r)
  ELSE r

Iid(k) == kPeHeaderSizeWithPadding + 20 * k
IdataOffset(r) == kPeHeaderSizeWithPadding + (r - PeImportRva)
\* the import name table follows the two descriptors
IntAt == kPeHeaderSizeWithPadding + 2 * 20
IntEntry(k) == Slice(ofs.img, IntAt + 8 * k, 8)
\* the first descriptor names its INT, "msvcrt.dll" and its IAT
FirstPopulated ==
  /\ IdataOffset(Field4(Iid(0))) = IntAt
  /\ Slice(ofs.img, IdataOffset(Field4(Iid(0) + 12)), 11)
       = SubSeq(kDllName, 1, 11)
  /\ IdataOffset(Field4(Iid(0) + 16)) = IntAt + 4 * 8 + Len(kDllName)
\* every field of the second descriptor is 0
SecondZero == Slice(ofs.img, Iid(1), 20) = Zeros(20)
\* the second descriptor but for its TimeDateStamp
SecondZeroButStamp ==
  /\ Slice(ofs.img, Iid(1), 4) = Zeros(4)
  /\ Slice(ofs.img, Iid(1) + 8, 12) = Zeros(12)
\* the INT has three entries and a null fourth
IntNullEnded ==
  /\ \A k \in 0..2 : IntEntry(k) # Zeros(8)
  /\ IntEntry(3) = Zeros(8)

\* C15: in a finished PE file the import section at 0x200 starts with a
\* populated descriptor and an all-zero second descriptor, followed by a
\* 4-entry import name table whose last entry is null.
C15_ZeroSentinel ==
  (target = "PE" /\ Finalized) =>
    FirstPopulated /\ SecondZero /\ IntNullEnded

\* a finished PE file whose second descriptor carries the time stamp
C15_Witness ==
  /\ target = "PE" /\ Finalized
  /\ FirstPopulated /\ IntNullEnded /\ SecondZeroButStamp
  /\ Field4(Iid(1) + 4) = 1590883200
  /\ Field4(Iid(0) + 4) = 1590883200

(***************************************************************************)
(* C16: the four patches of the PE finalization pass, as the difference    *)
(* between the image before and after writeHeader.                         *)
(***************************************************************************)
\* a 4-byte field of image f, and the file offset of RVA r of .idata whose
\* RVA is read from f's import directory entry
F4(f, o) == S32(Slice(f, o, 4))
RawOf(f, r) == kPeHeaderSizeWithPadding + (r - F4(f, PeOpt + 112 + 8))
\* the four placeholders: putchar, getchar, .bss, exit
PatchSlots == <<CodeStart("PE") + 7, CodeStart("PE") + 15,
                CodeStart("PE") + 22, exitAddrPos>>
InPatchSlot(a) == \E k \in 1..4 : a \in PatchSlots[k]..(PatchSlots[k] + 3)
\* ioh.ImageBase, the IAT's RVA and the .bss RVA as written in f
ImageBaseOf(f) == F4(f, PeOpt + 24)
IatRvaOf(f) == F4(f, Iid(0) + 16)
BssRvaOf(f) == F4(f, PeSec(2) + 12)
\* entry k of the thunk array at RVA r names the hint/name record nm
ThunkNames(f, r, k, nm) ==
  /\ Slice(f, RawOf(f, r) + 8 * k + 4, 4) = Zeros(4)
  /\ Slice(f, RawOf(f, F4(f, RawOf(f, r) + 8 * k)), 2 + Len(nm)) = <<0, 0>> \o nm

C16_Step ==
  (target = "PE" /\ pc = "sized" /\ pc' = "headed") =>
    \A f \in {ofs'.img} :
      \* the placeholders held zero and sit behind their opcodes
      /\ \A k \in 1..4 : Slice(ofs.img, PatchSlots[k], 4) = Zeros(4)
      /\ Slice(f, CodeStart("PE") + 3, 4) = <<\h48, \h8b, \h34, \h25>>
      /\ Slice(f, CodeStart("PE") + 11, 4) = <<\h48, \h8b, \h3c, \h25>>
      /\ Slice(f, CodeStart("PE") + 19, 3) = <<\h48, \hc7, \hc3>>
      /\ ByteAt(f, exitAddrPos - 1) = \hc3
      /\ exitAddrPos + 4 = CodeStart("PE") + codeSize
      \* no other byte of the code changes
      /\ \A a \in CodeStart("PE")..(CodeStart("PE") + codeSize - 1) :
           InPatchSlot(a) \/ ByteAt(f, a) = ByteAt(ofs.img, a)
      \* the values stored
      /\ F4(f, PatchSlots[1]) = ImageBaseOf(f) + IatRvaOf(f)
      /\ F4(f, PatchSlots[2]) = ImageBaseOf(f) + IatRvaOf(f) + 8
      /\ F4(f, PatchSlots[4]) = ImageBaseOf(f) + IatRvaOf(f) + 16
      /\ F4(f, PatchSlots[3]) = ImageBaseOf(f) + BssRvaOf(f)
      /\ Slice(f, PeOpt + 24 + 4, 4) = Zeros(4)
      \* the IAT is the second thunk array of .idata; it and the INT name
      \* putchar, getchar, exit in this order
      /\ RawOf(f, IatRvaOf(f)) = IntAt + 4 * 8 + Len(kDllName)
      /\ \A r \in {F4(f, Iid(0)), IatRvaOf(f)} :
           /\ ThunkNames(f, r, 0, kPutcharName)
           /\ ThunkNames(f, r, 1, kGetcharName)
           /\ ThunkNames(f, r, 2, kExitName)

\* C16: writeHeader's four patches fall on the four zero placeholders of
\* the PE code (0x400+7, 0x400+15, 0x400+22, exitAddrPos), change no other
\* code byte, and store ImageBase + the RVA of the IAT entries of putchar,
\* getchar, exit (consecutive 8-byte entries of the second thunk array) and
\* ImageBase + the .bss RVA; INT and IAT entries point at the hint/name
\* records of putchar, getchar, exit.
C16_Patches == [][C16_Step]_vars

\* a finished PE file with a loop whose four slots are patched
C16_Witness ==
  /\ target = "PE" /\ Finalized /\ loops # <<>>
  /\ \A k \in 1..4 : Slice(ofs.img, PatchSlots[k], 4) # Zeros(4)
  /\ F4(ofs.img, exitAddrPos) = kPeBaseAddr + IatRva(codeSize) + 16

(***************************************************************************)
(* C17: the PE padding step, as the difference between the image before    *)
(* and after it.                                                           *)
(***************************************************************************)
C17_Step ==
  (target = "PE" /\ pc = "emitted" /\ pc' = "sized") =>
    /\ codeSize' = ofs.len - CodeStart("PE")
    /\ ofs'.len = CodeStart("PE") + AlignedUp(codeSize', kCodeAlignment)
    /\ \A a \in CodeStart("PE")..(CodeStart("PE") + codeSize' - 1) :
         ByteAt(ofs'.img, a) = ByteAt(ofs.img, a)
    \* the byte written is the last of the file; when the code already ends
    \* on the boundary it is the last byte of the slot after the ret
    /\ ofs'.cur = ofs'.len
    /\ codeSize' % kCodeAlignment = 0 => ofs'.cur - 1 = exitAddrPos + 3

\* C17: for every code size, multiples of 0x1000 included, the PE padding
\* step leaves the file ending at 0x400 + align(codeSize, 0x1000) and every
\* byte of the code region [0x400, 0x400 + codeSize) as generated.
C17_Padding == [][C17_Step]_vars

\* a PE file padded when its code was exactly 0x1000 bytes long
C17_Witness ==
  /\ target = "PE" /\ pc = "sized" /\ codeSize = kCodeAlignment
  /\ ofs.len = CodeStart("PE") + kCodeAlignment
  /\ Slice(ofs.img, exitAddrPos - 1, 5) = <<\hc3, 0, 0, 0, 0>>

(***************************************************************************)
(* C18: the order of the driver's events.                                  *)
(***************************************************************************)
IsMilestone(e) ==
  e \in {"skip_header", "prologue", "epilogue", "footer", "padding", "codesize",
         "header", "close_dst", "chmod", "system"}
Milestones == SelectSeq(events, IsMilestone)
\* the tail of the success path: the container's trailer, then chmod on ELF
Trailer(t) == IF t = "PE" THEN "padding" ELSE "footer"
Closing(t) ==
  IF t = "PE" THEN <<"close_dst", "system">>
  ELSE <<"close_dst", "chmod", "system">>
\* the order as stated, and the order of the code
StatedOrder(t) ==
  <<"skip_header", "prologue", "epilogue", Trailer(t), "codesize", "header">>
    \o Closing(t)
CodeOrder(t) ==
  <<"skip_header", "prologue", "epilogue", "codesize", Trailer(t), "header">>
    \o Closing(t)
IsPrefix(s, t) == Len(s) <= Len(t) /\ s = SubSeq(t, 1, Len(s))
Before(a, b) ==
  \A k \in 1..Len(events) :
    events[k] = b => \E j \in 1..(k - 1) : events[j] = a
Happened(e) == \E k \in 1..Len(events) : events[k] = e
\* the tokens are lowered between prologue and epilogue
BodyBetween ==
  /\ pc = "loop" => Happened("prologue") /\ ~Happened("epilogue")
  /\ (Happened("epilogue") /\ err = <<>>) => i = Len(source)
\* what holds of either order
Guarded ==
  /\ Before("codesize", "header")
  /\ Before("close_dst", "system")
  /\ Happened("system") => ~ofsOpen
  /\ (err # <<>> \/ ret = 1) => ~Happened("system")
  /\ Happened("chmod") <=> (mode = 493)
  /\ Happened("system") <=> (ran # -1)

\* C18 as stated: the footer or padding is written before codeSize is fixed.
C18_StatedOrder ==
  /\ IsPrefix(Milestones, StatedOrder(target))
  /\ (pc = "done" /\ ret = 0) => Milestones = StatedOrder(target)
  /\ BodyBetween /\ Guarded

\* C18 amended: on the success path the events are, in this order and no
\* other: header space skipped, prologue, body, epilogue, codeSize fixed,
\* footer (ELF) or padding (PE) written, header written at offset 0, output
\* closed, chmod 0755 (ELF), child executed.  The header is never written
\* before codeSize is fixed, the child never runs before the output is
\* closed, and never on an error path.
C18_Order ==
  /\ IsPrefix(Milestones, CodeOrder(target))
  /\ (pc = "done" /\ ret = 0) => Milestones = CodeOrder(target)
  /\ BodyBetween /\ Guarded

\* main has returned 0 on an ELF target after a source with a loop
C18_Witness ==
  /\ pc = "done" /\ ret = 0 /\ IsElf(target) /\ loops # <<>>
  /\ Milestones = CodeOrder(target)
  /\ Happened("chmod") /\ Happened("system")

(***************************************************************************)
(* C19: edx in the code of the two ELF generators, read from the image     *)
(* and followed through the child's execution.                             *)
(***************************************************************************)
\* the instruction at file offset a of the image
InsAt(a) == Decode(ofs.img, a, target)
\* the prologue starts with the load of the cell pointer and `mov edx, 1`;
\* the offset of the instruction after them
EdxLoadAt == CodeStart(target) + InsAt(CodeStart(target)).len
EdxLoaded == EdxLoadAt + InsAt(EdxLoadAt).len
\* the offsets of the instructions from a up to the end of the code
RECURSIVE InsStarts(_)
InsStarts(a) ==
  IF a >= CodeStart(target) + codeSize THEN {}
  ELSE {a} \cup InsStarts(a + InsAt(a).len)
\* the instruction writes edx or a part of it, or reads edx or dh
WritesEdx(ins) ==
  /\ ins.dst.k = "reg"
  /\ ins.op \notin {"cmp", "push", "je", "jmp", "int", "syscall"}
  /\ IF ins.size = 8 THEN ins.dst.n \in {RDX, DH} ELSE ins.dst.n = RDX
ReadsEdx(ins) ==
  /\ ins.src.k = "reg"
  /\ IF ins.size = 8 THEN ins.src.n = DH ELSE ins.src.n = RDX
\* the forms in which the generators use edx and dh
EdxUse(ins) ==
  \/ ins.op \in {"cmp", "mov"} /\ ins.size = 8 /\ ins.dst.k = "mem"
       /\ ins.src = Loc("reg", DH)
  \/ ins.op = "mov" /\ ins.size = 32 /\ ins.src = Loc("reg", RDX)
       /\ ins.dst \in {Loc("reg", RAX), Loc("reg", RDI), Loc("reg", RBX)}

\* C19: in ELF64 and ELF32 code the prologue sets edx to 1 and no later
\* emitted instruction writes edx, so edx = 1 and dh = 0 whenever a
\* `cmp [reg], dh`, `mov [reg], dh`, `mov eax, edx`, `mov edi, edx` or
\* `mov ebx, edx` executes, on every path through the loops.
C19_EdxHeld ==
  /\ (IsElf(target) /\ pc = "ready") =>
       /\ InsAt(EdxLoadAt) = Ins(5, "mov", 32, Loc("reg", RDX), Loc("imm", 1))
       /\ \A a \in InsStarts(EdxLoaded) :
            /\ InsAt(a).op # "bad"
            /\ ~WritesEdx(InsAt(a))
            /\ ReadsEdx(InsAt(a)) => EdxUse(InsAt(a))
  /\ (IsElf(target) /\ pc = "child" /\ cpu.ip >= EdxLoaded) =>
       /\ cpu.regs[RDX] = 1
       /\ Reg8(cpu, DH) = 0
       /\ cpu.ip \in InsStarts(EdxLoaded) \/ cpu.ip = CodeStart(target) + codeSize

\* the child is about to execute `cmp [reg], dh` after it has read a byte
\* and written one
C19_Witness ==
  /\ IsElf(target) /\ pc = "child" /\ ~cpu.halted
  /\ cpu.out # <<>> /\ cpu.mem # <<>>
  /\ InsAt(cpu.ip).op = "cmp" /\ EdxUse(InsAt(cpu.ip))
  /\ cpu.regs[RDX] = 1

(***************************************************************************)
(* C20: what the back-patch at ']' changes.  The image just after the jmp  *)
(* was appended is the image before the token with the jmp at the cursor.  *)
(***************************************************************************)
\* the rel32 slot of the '[' whose cmp is at pos
SlotOf(pos) == IF target = "PE" THEN pos + 5 ELSE pos + 4
InSlotOf(pos, a) == a \in SlotOf(pos)..(SlotOf(pos) + 3)
C20_CloseStep ==
  (pc = "loop" /\ i < Len(source) /\ At(source, i) = "]" /\ loopStack # <<>>) =>
    \A P \in {loopStack[Len(loopStack)]}, C \in {ofs.cur}, f \in {ofs'.img} :
      LET jmp == Decode(f, C, target) IN
        /\ C = ofs.len /\ SlotOf(P) + 4 <= C
        /\ Slice(ofs.img, SlotOf(P), 4) = Zeros(4)
        /\ Slice(f, SlotOf(P), 4) # Zeros(4)
        /\ \A a \in 0..(C - 1) : InSlotOf(P, a) \/ ByteAt(f, a) = ByteAt(ofs.img, a)
        /\ jmp.op = "jmp"
        /\ ofs'.len = C + jmp.len
        /\ ofs'.cur = C + jmp.len
        /\ loopStack' = SubSeq(loopStack, 1, Len(loopStack) - 1)
\* a slot is written once: the slots of closed loops keep their bytes and
\* the slots of open loops stay zero while tokens are lowered
C20_OtherSteps ==
  (pc = "loop" /\ pc' \in {"loop", "emitted"}) =>
    /\ \A k \in 1..Len(loops) :
         Slice(ofs'.img, SlotOf(loops[k].pos), 4) = Slice(ofs.img, SlotOf(loops[k].pos), 4)
    /\ \A k \in 1..Len(loopStack') :
         Slice(ofs'.img, SlotOf(loopStack'[k]), 4) = Zeros(4)
    /\ \A j, k \in 1..Len(loopStack') : j < k => loopStack'[j] + 8 <= loopStack'[k]
    /\ \A j \in 1..Len(loops), k \in 1..Len(loopStack) : loops[j].pos # loopStack[k]

\* C20: the back-patch at ']' changes only the 4 bytes of the rel32 slot of
\* the matching '[' (savedPos+4.. on ELF, savedPos+5.. on PE), which held
\* zero and are written once; every other emitted byte is unchanged, the
\* end of the image stays right after the jmp, and the cursor is back at
\* the byte after the jmp.
C20_PatchFrame == [][C20_CloseStep /\ C20_OtherSteps]_vars

\* the outer of two nested loops has just been closed
C20_Witness ==
  /\ pc = "loop" /\ Len(loops) = 2 /\ loopStack = <<>>
  /\ loops[2].pos < loops[1].pos /\ loops[1].jmp < loops[2].jmp
  /\ ofs.cur = ofs.len
  /\ S32(Slice(ofs.img, SlotOf(loops[2].pos), 4)) = ofs.cur - (SlotOf(loops[2].pos) + 4)

(***************************************************************************)
(* C21: the loop stack against the brackets of the source.  The index i    *)
(* stands at the start of a token, '[' starts a token wherever it stands,  *)
(* and a ']' is part of a zero store exactly when `[+` or `[-` is before   *)
(* it.                                                                     *)
(***************************************************************************)
\* the '[' at 0-based index j pushes; the ']' at j pops
PushesAt(j) == At(source, j) = "[" /\ ~IsZeroStore(source, j)
PopsAt(j) ==
  /\ At(source, j) = "]"
  /\ ~(j >= 2 /\ At(source, j - 2) = "[" /\ IsZeroStore(source, j - 2))
Pushed(k) == Cardinality({j \in 0..(k - 1) : PushesAt(j)})
Popped(k) == Cardinality({j \in 0..(k - 1) : PopsAt(j)})
\* the bytes of an emitted loop: from its cmp to the end of its jmp
LoopEnd(l) == l.jmp + Decode(ofs.img, l.jmp, target).len
Apart(l, m) == LoopEnd(l) <= m.pos \/ LoopEnd(m) <= l.pos
Inside(l, m) == m.pos < l.pos /\ LoopEnd(l) < LoopEnd(m)
C21_Inv ==
  pc = "loop" =>
    /\ Len(loopStack) = Pushed(i) - Popped(i)
    /\ \A k \in 0..i : Pushed(k) - Popped(k) >= 0
    /\ \A j, k \in 1..Len(loopStack) : j < k => loopStack[j] < loopStack[k]
    /\ \A j, k \in 1..Len(loops) :
         j # k => Apart(loops[j], loops[k]) \/ Inside(loops[j], loops[k])
                    \/ Inside(loops[k], loops[j])
    \* a loop still open holds or follows every closed one
    /\ \A j \in 1..Len(loopStack), k \in 1..Len(loops) :
         loopStack[j] < loops[k].pos \/ LoopEnd(loops[k]) <= loopStack[j]
    /\ ofs.cur = ofs.len
    /\ \A j \in 1..Len(loopStack) : loopStack[j] < ofs.cur
C21_Step ==
  (pc = "loop" /\ i < Len(source) /\ i' # i) =>
    CASE PushesAt(i) ->
           /\ loopStack' = Append(loopStack, ofs.cur)
           /\ loops' = loops
      [] At(source, i) = "]" ->
           /\ loopStack # <<>>
           /\ loopStack' = SubSeq(loopStack, 1, Len(loopStack) - 1)
           /\ loops' = Append(loops, [pos |-> loopStack[Len(loopStack)],
                                      jmp |-> ofs.cur])
      [] OTHER -> loopStack' = loopStack /\ loops' = loops

\* C21: during code generation the stack depth is the number of '[' lowered
\* outside the zero store minus the number of ']' lowered and never
\* negative; a ']' pops the top entry, the one pushed last; the byte ranges
\* of two emitted loops are disjoint or strictly nested; the saved positions
\* increase from the bottom of the stack to its top.
C21_LoopStack == []C21_Inv /\ [][C21_Step]_vars

\* a loop is open around a zero store, whose brackets did not count
C21_Witness ==
  /\ pc = "loop" /\ Len(loopStack) = 1
  /\ Pushed(i) = 1 /\ Popped(i) = 0
  /\ \E j \in 1..(i - 3) : At(source, j) = "[" /\ IsZeroStore(source, j)
  /\ loopStack[1] < ofs.cur

(***************************************************************************)
(* C22: the regions of the PE file that writeHeader writes, as the         *)
(* offsets and bytes that differ between the image before and after it.    *)
(***************************************************************************)
\* the offsets below 0x400 that hold a written byte
HeadOffsets(f) == {a \in DOMAIN f : a < CodeStart("PE")}
\* the two blocks as writeHeader lays them out for one time stamp
BlocksOf(f, ts) ==
  LET hdr == PeHeaderBytes(codeSize, ts)
      idata == PeIdataBytes(codeSize, ts)
  IN /\ Len(hdr) <= kPeHeaderSizeWithPadding
     /\ kPeHeaderSizeWithPadding + Len(idata) < CodeStart("PE")
     /\ Slice(f, 0, Len(hdr)) = hdr
     /\ Slice(f, kPeHeaderSizeWithPadding, Len(idata)) = idata
     /\ HeadOffsets(f) =
          (0..(Len(hdr) - 1))
            \cup (kPeHeaderSizeWithPadding..(kPeHeaderSizeWithPadding + Len(idata) - 1))
C22_Step ==
  (target = "PE" /\ pc = "sized" /\ pc' = "headed") =>
    \A f \in {ofs'.img} :
      /\ HeadOffsets(ofs.img) = {}
      /\ \E ts \in TimeStamps : BlocksOf(f, ts)
      \* e_lfanew and the signature it points at
      /\ F4(f, 60) = \h80
      /\ Slice(f, \h80, 4) = <<\h50, \h45, 0, 0>>
      /\ PeSec(2) + 40 <= kPeHeaderSizeWithPadding
      /\ Slice(f, PeSec(2), 4) = <<\h2e, \h62, \h73, \h73>>
      \* the code region: only the four patched slots differ
      /\ DOMAIN f \ HeadOffsets(f) = DOMAIN ofs.img
      /\ ofs'.len = ofs.len
      /\ \A a \in DOMAIN ofs.img : InPatchSlot(a) \/ f[a] = ofs.img[a]

\* C22: the header block written from offset 0 ends at or before 0x200 with
\* the PE signature at e_lfanew = 0x80, the import data written from 0x200
\* ends before 0x400, and of the code region from 0x400 on only the bytes
\* of the four patches change.
C22_Regions == [][C22_Step]_vars

\* a finished PE file: the last section header ends where .idata starts
C22_Witness ==
  /\ target = "PE" /\ pc = "headed"
  /\ HeadOffsets(ofs.img) # {}
  /\ \A a \in (PeSec(2) + 40 - 4)..(kPeHeaderSizeWithPadding + 3) : a \in DOMAIN ofs.img
  /\ CodeStart("PE") - 1 \notin DOMAIN ofs.img
  /\ F4(ofs.img, 60) = \h80

(***************************************************************************)
(* C23: how the lowering loop moves its index over the normalized source.  *)
(***************************************************************************)
\* the characters at the 0-based indexes a .. b-1 are all ch, and the run
\* ends at b
RunTo(ch, a, b) ==
  /\ a < b /\ b <= Len(source)
  /\ \A k \in a..(b - 1) : At(source, k) = ch
  /\ b < Len(source) => At(source, b) # ch
C23_Step ==
  (pc = "loop" /\ i < Len(source)) =>
    \A ch \in {At(source, i)} :
      /\ ch \in kBrainfuckChars
      /\ i' <= Len(source)
      /\ CASE ch \in {"+", "-", ">", "<"} ->
                /\ RunTo(ch, i, i')
                /\ i' = i + countSuccChars(source, ch, i + 1) + 1
           [] ch = "[" /\ IsZeroStore(source, i) ->
                /\ i' = i + 3
                /\ At(source, i + 1) \in {"+", "-"} /\ At(source, i + 2) = "]"
           [] ch = "]" /\ loopStack = <<>> -> i' = i /\ pc' = "done" /\ ret' = 1
           [] OTHER -> i' = i + 1
      \* a step that consumes characters emits code for them
      /\ i' > i => (pc' = "loop" /\ ofs'.len > ofs.len /\ source' = source)
C23_Leaves ==
  /\ (pc = "loop" /\ pc' # "loop") => (i = Len(source) \/ At(source, i) = "]")
  /\ (pc # "loop" /\ pc' = "loop") => (i' = 0 /\ source' = Normalized(srcFile))
  /\ pc # "loop" => i' = i

\* C23: the lowering loop ends on every source, and each character is
\* consumed by one step: a step on '+', '-', '>' or '<' consumes the maximal
\* run at the index, the zero store consumes 3 characters, every other step
\* consumes 1; the index never goes back and passes no character without
\* lowering it.
C23_Consumes ==
  /\ [][C23_Step /\ C23_Leaves]_vars
  /\ [](pc = "loop" => <>(pc # "loop"))

\* the loop has ended after a run step, a zero store and single steps
C23_Witness ==
  /\ pc = "emitted" /\ i = Len(source) /\ i >= 7
  /\ \E k \in 0..(i - 3) : At(source, k) = "[" /\ IsZeroStore(source, k)
  /\ \E k \in 0..(i - 2) : At(source, k) = "<" /\ At(source, k + 1) = "<"

====
